---------------------------- MODULE Spec2Model ----------------------------
(***************************************************************************)
(* The owner dashboard, the owner sign-in / registration form and the      *)
(* customer order history of the food-ordering front end, as state         *)
(* machines over the React state of each component.                        *)
(*                                                                         *)
(* A step of the model is one callback of the JavaScript event loop (an    *)
(* event handler, or the continuation of an await) together with the       *)
(* React commit that follows it: the state updates of the callback, the    *)
(* cleanup of every effect whose dependencies changed, and the re-run of   *)
(* those effects.  Calls to the store that are in flight are records in    *)
(* runs / orderLoads / productLoads; the store answers in any order.       *)
(***************************************************************************)
EXTENDS Integers, Sequences, FiniteSets, TLC

(***************************************************************************)
(* Bounds of the model.                                                    *)
(***************************************************************************)
\* calls of the store and of the auth service that may be in flight at once
MaxInFlight == 2
\* most earlier handleAuth calls still running when the button is pressed
MaxFormerCalls == 1
\* rows of the order_items table
MaxItems == 3
\* most items of the order drawn for the order history
MaxHistItems == 3
\* cap of the episode counters epNotFound, epRetries, epRetryLookups
MaxCount == 6
\* status buttons pressed in one behaviour
MaxStatusWrites == 2
\* pieces of an image reference
MaxRefLen == 3

(***************************************************************************)
(* Program constants.                                                      *)
(***************************************************************************)
\* if (restaurantCheckAttempts < 3)
MaxCheckAttempts == 3
\* let retries = 3
InsertRetries == 3

Null == "null"
NoUser == Null
Users == {"u1", "u2"}

\* the rows of the restaurants and owners tables, keyed by the owner's user id
RestaurantOf(u) == IF u = "u1" THEN "r1" ELSE "r2"
OwnerRowOf(u) == IF u = "u1" THEN "owner1" ELSE "owner2"
RestaurantIds == {RestaurantOf(u) : u \in Users}

\* outcomes of a .single() lookup: a row, the distinguished "no rows" code,
\* or any other error
LookupResults == {"row", "PGRST116", "error"}

VARIABLES
    \* ---- RestaurantOwnerDashboard: React state
    dashMounted,                \* the component is mounted
    user,                       \* useState(null)
    authReady,                  \* useState(false)
    owner,                      \* useState(null)
    orders,                     \* useState([])
    loading,                    \* useState(true)
    myRestaurant,               \* useState(null)
    restaurantLoaded,           \* useState(false)
    restaurantCheckAttempts,    \* useState(0)
    products,                   \* useState([])
    \* ---- RestaurantOwnerDashboard: asynchronous work
    sessionChecks,               \* checkAuth() calls awaiting getSession()
    runs,                       \* runs of the provisioning effect (loadMyData)
    orderLoads,                 \* loadOrders calls in flight
    productLoads,               \* loadProducts calls in flight
    signOuts,                   \* handleSignOut calls awaiting auth.signOut()
    \* ---- the store
    dbOrderItems,               \* order_items joined with food_items
    dbOrders,                   \* orders (headers)
    dbFoodItems,                \* food_items
    dbOwners,                   \* owners: the ids of the users with a row
    dbRestaurants,              \* restaurants: the owner ids of the rows
    \* ---- history of the current checking episode (since the last reset
    \*      of restaurantCheckAttempts)
    epNotFound,                 \* NotFound results seen by the mounted run
    epRetries,                  \* runs started by the commit of a NotFound
    epRetryLookups,             \* restaurant lookups issued by those runs
    retryTimer,                 \* its last retry timer: none|pending|cleared|fired
    \* ---- history of loadOrders
    loadOutcome,                \* how the last call that returned ended:
                                \* none|failed|empty|filled
    \* ---- OwnerAuthPage: React state of the page instance that is shown
    isLogin,                    \* useState(true)
    error,                      \* useState('')
    successMessage,             \* useState('')
    pageLoading,                \* useState(false)   (`loading` of the page)
    authCalls,                  \* the handleAuth calls with something left to run,
                                \* then the last call with its history
    \* ---- OrderHistory
    histMounted,                \* the component is mounted
    histUser,                   \* the prop `user`
    groupedOrders,              \* useState([])
    histLoading,                \* useState(true)    (`loading` of the view)
    histFetches,                \* fetchOrders calls in flight
    histDb,                     \* orders with their nested items
    \* ---- RestaurantOwnerDashboard: status writes and the status filter
    statusWrites,               \* updateOrderStatus calls in flight
    statusFilter,               \* useState(() => localStorage.getItem(...) || 'all')
    savedFilter,                \* localStorage under STATUS_FILTER_KEY
    filterPicked,               \* the option last picked in the filter select
                                \* (Null: none was picked)
    writeOutcome,               \* how the last status write that returned
                                \* ended: none|ok|error
    writesIssued,               \* updateOrderStatus calls so far
    \* ---- RestaurantOwnerDashboard: profile and product management
    isUpdatingProfile,          \* useState(false)
    profileCalls,                \* the handleProfileUpdate calls in flight
    productWrites,              \* the handleProductSubmit and
                                \* handleDeleteProduct calls in flight
    dateNow,                    \* Date.now() of the last Add Product that was
                                \* saved, counted from the mount of the first
                                \* dashboard (rows made before it: below 0)
    \* ---- RestaurantOwnerDashboard: the tabs and the sidebars
    activeTab,                  \* useState('orders')
    showProductModal,           \* useState(false)
    showProfileModal,           \* useState(false)
    editingProduct              \* useState(null): <<>> stands for null, <<p>>
                                \* for the product p

dashState == <<dashMounted, user, authReady, owner, orders, loading, myRestaurant,
               restaurantLoaded, restaurantCheckAttempts, products>>
dashAsync == <<sessionChecks, runs, orderLoads, productLoads, signOuts>>
orderTables == <<dbOrderItems, dbOrders, dbFoodItems>>
storeVars == <<orderTables, dbOwners, dbRestaurants>>
ghostVars == <<epNotFound, epRetries, epRetryLookups, retryTimer, loadOutcome>>
dashVars == <<dashState, dashAsync, ghostVars>>

regVars == <<isLogin, error, successMessage, pageLoading, authCalls>>
histVars == <<histMounted, histUser, groupedOrders, histLoading, histFetches, histDb>>
filterVars == <<statusFilter, savedFilter, filterPicked>>
sidebarVars == <<activeTab, showProductModal, showProfileModal, editingProduct>>
manageVars == <<isUpdatingProfile, profileCalls, productWrites, dateNow, sidebarVars>>
uiVars == <<statusWrites, filterVars, writeOutcome, writesIssued, manageVars>>
vars == <<dashVars, storeVars, regVars, histVars, uiVars>>

Min(a, b) == IF a < b THEN a ELSE b

(***************************************************************************)
(* The store: order_items (each row joined with the restaurant of its food *)
(* item) and orders.  Prices are in eighths of the currency unit: such     *)
(* amounts, their products and their sums are exact as JavaScript numbers, *)
(* and a price may carry more than two decimals (0.125).                   *)
(***************************************************************************)
OrderIds == {"o1", "o2"}

LineItem(o, pq, r) ==
    [order_id |-> o, name |-> "adobo", price |-> pq[1], quantity |-> pq[2],
     restaurant_id |-> r]

\* lines of two orders, each with items of both restaurants
LineItems ==
    {LineItem("o1", <<1, 1>>, "r1"), LineItem("o2", <<400, 2>>, "r1"),
     LineItem("o2", <<1, 1>>, "r1"), LineItem("o1", <<1, 1>>, "r2"),
     LineItem("o2", <<400, 2>>, "r2")}

\* created_at of an order: "o2" was placed after "o1"
CreatedAt(id) == IF id = "o1" THEN 1 ELSE 2
Header(id) == [id |-> id, created_at |-> CreatedAt(id), status |-> "Pending"]

\* all sequences over S of length at most n
SeqsUpTo(S, n) == UNION {[1..k -> S] : k \in 0..n}

\* .from('order_items').select(... food_items!inner(restaurant_id))
\*     .eq('food_items.restaurant_id', myRestaurant.id)
FetchItems(r) == SelectSeq(dbOrderItems, LAMBDA i : i.restaurant_id = r)

\* [...new Set(items.map(i => i.order_id))]: the ids in first-seen order
RECURSIVE UniqueOrderIds(_)
UniqueOrderIds(items) ==
    IF items = <<>> THEN <<>>
    ELSE LET front == UniqueOrderIds(SubSeq(items, 1, Len(items) - 1))
             id == items[Len(items)].order_id
         IN IF \E k \in DOMAIN front : front[k] = id THEN front
            ELSE Append(front, id)

SeqToSet(s) == {s[k] : k \in DOMAIN s}

\* the rows of a table (a sequence) sorted by created_at, newest first
RECURSIVE SortDesc(_)
SortDesc(rows) ==
    IF rows = <<>> THEN <<>>
    ELSE LET k == CHOOSE k \in DOMAIN rows :
                     \A j \in DOMAIN rows :
                         \/ rows[k].created_at > rows[j].created_at
                         \/ (rows[k].created_at = rows[j].created_at /\ k <= j)
             rest == [j \in 1..(Len(rows) - 1) |->
                         IF j < k THEN rows[j] ELSE rows[j + 1]]
         IN <<rows[k]>> \o SortDesc(rest)

\* .from('orders').select('*').in('id', uniqueOrderIds)
\*     .order('created_at', { ascending: false })
FetchHeaders(ids) ==
    SortDesc(SelectSeq(dbOrders, LAMBDA o : o.id \in SeqToSet(ids)))

\* Number.prototype.toFixed(2) of a non-negative amount given in eighths: the
\* decimal text "u.hh", here the pair <<u, hh>>.  The number is x/8 exactly,
\* so the nearest hundredth is taken of x/8 itself, the larger one on a tie
\* (0.125 gives "0.13")
ToFixed2(x) == LET cents == (25 * x + 1) \div 2 IN <<cents \div 100, cents % 100>>

\* the lines of every order: the filter on order_id left out
RelevantItemsUnfiltered(items, id) ==
    [k \in DOMAIN items |->
        [name |-> items[k].name, price |-> items[k].price,
         quantity |-> items[k].quantity]]

\* items.filter(i => i.order_id === order.id).map(i => ({ food_item_id, name,
\*     price, quantity }))   (food_item_id is not selected: undefined)
RelevantItems(items, id) ==
    LET mine == SelectSeq(items, LAMBDA i : i.order_id = id)
    IN [k \in DOMAIN mine |->
           [name |-> mine[k].name, price |-> mine[k].price,
            quantity |-> mine[k].quantity]]

\* relevantItems.reduce((sum, item) => sum + (item.price * item.quantity), 0)
RECURSIVE RestaurantSubtotal(_)
RestaurantSubtotal(its) ==
    IF its = <<>> THEN 0
    ELSE RestaurantSubtotal(SubSeq(its, 1, Len(its) - 1))
         + its[Len(its)].price * its[Len(its)].quantity

\* ordersData.map(order => ({ ...order, order_items, restaurant_subtotal }))
FullOrders(ordersData, items) ==
    [k \in DOMAIN ordersData |->
        LET relevantItems == RelevantItems(items, ordersData[k].id)
        IN [id |-> ordersData[k].id,
            created_at |-> ordersData[k].created_at,
            status |-> ordersData[k].status,
            order_items |-> relevantItems,
            restaurant_subtotal |-> ToFixed2(RestaurantSubtotal(relevantItems))]]

\* the rows of a table sorted by name (a name is its rank in text order)
RECURSIVE SortByName(_)
SortByName(rows) ==
    IF rows = <<>> THEN <<>>
    ELSE LET k == CHOOSE k \in DOMAIN rows :
                     \A j \in DOMAIN rows :
                         \/ rows[k].name < rows[j].name
                         \/ (rows[k].name = rows[j].name /\ k <= j)
             rest == [j \in 1..(Len(rows) - 1) |->
                         IF j < k THEN rows[j] ELSE rows[j + 1]]
         IN <<rows[k]>> \o SortByName(rest)

\* .from('food_items').select('*').eq('restaurant_id', id).order('name')
FetchProducts(r) ==
    SortByName(SelectSeq(dbFoodItems, LAMBDA f : f.restaurant_id = r))

\* the answers the store may give to that select: order('name') does not say
\* in which order rows of one name come
ProductFetches(r) ==
    LET rows == FetchProducts(r)
        Orders == {p \in [DOMAIN rows -> DOMAIN rows] :
                      /\ \A i, j \in DOMAIN rows : i # j => p[i] # p[j]
                      /\ \A i, j \in DOMAIN rows :
                             i < j => rows[p[i]].name <= rows[p[j]].name}
    IN {[k \in DOMAIN rows |-> rows[p[k]]] : p \in Orders}

(***************************************************************************)
(* RestaurantOwnerDashboard: what is rendered (lines 940-956).             *)
(***************************************************************************)
View ==
    IF ~dashMounted THEN "gone"
    ELSE IF ~authReady THEN "loading"
    ELSE IF user = NoUser THEN "auth"
    ELSE IF ~restaurantLoaded \/ (loading /\ (myRestaurant = Null \/ owner = Null))
         THEN "loading"
    ELSE IF myRestaurant = Null THEN "noRestaurant"
    ELSE "main"

(***************************************************************************)
(* The provisioning effect, useEffect(..., [user, restaurantLoaded,        *)
(* restaurantCheckAttempts]).  A run of the effect is a record: the user   *)
(* and the attempt count its closure captured, its `mounted` flag, its     *)
(* position in loadMyData, its retryTimeout handle, and whether the commit *)
(* of a NotFound result started it (a retry).                              *)
(***************************************************************************)
NewRun(u, attempts, retry) ==
    [user |-> u, attempts |-> attempts, mounted |-> TRUE, pc |-> "owner",
     retryTimeout |-> "none", retry |-> retry]

\* a cleanup that forgets clearTimeout(retryTimeout)
CleanupRunNoClear(r) == [r EXCEPT !.mounted = FALSE]

\* return () => { mounted = false; if (retryTimeout) clearTimeout(retryTimeout); }
CleanupRun(r) ==
    IF r.mounted
    THEN [r EXCEPT !.mounted = FALSE,
                   !.retryTimeout = IF @ = "pending" THEN "cleared" ELSE @]
    ELSE r

\* a run that is over: cleaned up, loadMyData returned, no timer left
RunIsOver(r) == ~r.mounted /\ r.pc = "done" /\ r.retryTimeout # "pending"

\* a cleaned-up run reads its closure's attempt count no more (every use is
\* under if (mounted)): the record keeps the user of its lookups only
Forget(r) == IF r.mounted THEN r ELSE [r EXCEPT !.attempts = 0, !.retry = FALSE]

\* the cleanup of the last run of the effect; runs that are over are dropped
\* a continuation that finds mounted = false changes no state: its run is
\* over, the cleanups of the other runs are not called
DropOver(rs) == SelectSeq(rs, LAMBDA r : ~RunIsOver(r))

Cleanup(rs) ==
    SelectSeq([k \in DOMAIN rs |-> Forget(CleanupRun(rs[k]))],
              LAMBDA r : ~RunIsOver(r))

\* the effect's dependencies differ from those of the last commit; freshUser:
\* setUser was given another object for the same user
EffectRuns(u2, l2, a2, freshUser) ==
    \/ freshUser /\ u2 # NoUser
    \/ <<u2, l2, a2>> # <<user, restaurantLoaded, restaurantCheckAttempts>>

\* if (!user || restaurantLoaded) return;  ...  if (user) loadMyData();
StartsRun(u2, l2, a2, freshUser) ==
    EffectRuns(u2, l2, a2, freshUser) /\ u2 # NoUser /\ ~l2

\* the runs after the commit of a callback that left the runs rs and the
\* dependencies u2, l2, a2
RunsAfterCommit(rs, u2, l2, a2, freshUser, retry) ==
    IF ~EffectRuns(u2, l2, a2, freshUser) THEN rs
    ELSE IF StartsRun(u2, l2, a2, freshUser)
         THEN Append(Cleanup(rs), NewRun(u2, a2, retry))
         ELSE Cleanup(rs)

\* the status of the last retry timer after that commit
TimerAfterCommit(t, u2, l2, a2, freshUser) ==
    IF EffectRuns(u2, l2, a2, freshUser) /\ t = "pending" THEN "cleared" ELSE t

(***************************************************************************)
(* The data effect, useEffect(..., [myRestaurant, loadOrders, loadProducts])*)
(* : loadOrders() and loadProducts() once the restaurant changed.          *)
(***************************************************************************)
\* freshRow: setMyRestaurant was given a newly fetched row object
DataEffectRuns(m2, freshRow) == (freshRow /\ m2 # Null) \/ m2 # myRestaurant

StartsLoads(m2, freshRow) == DataEffectRuns(m2, freshRow) /\ m2 # Null

\* loadOrders: if (!myRestaurant) return; setLoading(true); the items fetch.
\* live: the dashboard instance that made the call is mounted; the setState
\* calls of a continuation change nothing once it is not
NewOrderLoad(r) ==
    [rest |-> r, pc |-> "items", items |-> <<>>, ids |-> <<>>, live |-> TRUE]

OrderLoadsAfterCommit(ls, m2, freshRow) ==
    IF StartsLoads(m2, freshRow) THEN Append(ls, NewOrderLoad(m2)) ELSE ls

\* loadProducts: if (!myRestaurant) return; the food_items fetch.  submit:
\* the call is awaited by handleProductSubmit (line 756)
NewProductLoad(r) == [rest |-> r, live |-> TRUE, submit |-> FALSE]

ProductLoadsAfterCommit(ls, m2, freshRow) ==
    IF StartsLoads(m2, freshRow) THEN Append(ls, NewProductLoad(m2)) ELSE ls

\* the calls in flight: lookups of loadMyData, fetches of loadOrders and
\* loadProducts, auth.signOut() of handleSignOut, updates of updateOrderStatus
\* a call awaiting its answer, issued by the mounted instance
NewCall == [live |-> TRUE]

\* handleProfileUpdate of user u at its first await, the owners update
NewProfileCall(u) == [pc |-> "ownerUpdate", user |-> u, owner |-> Null, live |-> TRUE]

InFlight ==
    Cardinality({k \in DOMAIN runs : runs[k].pc # "done"})
    + Len(orderLoads) + Len(productLoads) + Len(signOuts) + Len(statusWrites)
    + Len(productWrites) + Len(profileCalls)

RemoveAt(seq, i) ==
    [k \in 1..(Len(seq) - 1) |-> IF k < i THEN seq[k] ELSE seq[k + 1]]

(***************************************************************************)
(* OwnerAuthPage (lines 70-311) is rendered while the dashboard shows the  *)
(* auth view (line 941); its state lives as long as that page instance.    *)
(***************************************************************************)
AuthPageShown == View = "auth"

\* a handleAuth call: its position, what its closure captured (isLogin), its
\* local `retries`, whether the page instance that issued it is still mounted
\* (live), whether the dashboard instance that rendered that page with
\* onSuccess={setUser} is still mounted (dashLive), and its history
IdleCall ==
    [pc |-> "idle", isLogin |-> TRUE, user |-> Null, retries |-> 0,
     live |-> FALSE, dashLive |-> FALSE, inserts |-> 0, insertFails |-> 0, backoffs |-> 0,
     created |-> FALSE, readBack |-> "none", onSuccess |-> Null,
     thrown |-> "", switchTimer |-> "none", ownerInserts |-> 0,
     ownerRow |-> FALSE]

\* the useState initial values of a page instance (lines 83-86)
NewPage(l, e, m, p) == l = TRUE /\ e = "" /\ m = "" /\ p = FALSE

\* a call with nothing left to run: no await to return, and the timer of line
\* 192 not pending
CallIsOver(c) == c.pc \in {"idle", "done"} /\ c.switchTimer # "pending"
Running(cs) == SelectSeq(cs, LAMBDA c : ~CallIsOver(c))
CallIds == 1..(MaxFormerCalls + 1)

\* the calls once the page instance that issued them is unmounted
Dead(cs) == [k \in DOMAIN cs |-> [cs[k] EXCEPT !.live = FALSE]]

\* the last handleAuth call
authCall == IF authCalls = <<>> THEN IdleCall ELSE authCalls[Len(authCalls)]

\* the page after the commit of a dashboard callback: it keeps its state while
\* it stays rendered; a page that is unmounted loses it, and a page rendered
\* anew starts from the initial values
PageAfterCommit ==
    IF AuthPageShown /\ AuthPageShown'
    THEN UNCHANGED regVars
    ELSE /\ NewPage(isLogin', error', successMessage', pageLoading')
         /\ authCalls' = Dead(authCalls)

(***************************************************************************)
(* Mount: the auth effect (lines 616-637).                                 *)
(***************************************************************************)
\* checkAuth(): the continuation of supabase.auth.getSession()
CheckAuthResult(i, s, freshUser) ==
    /\ i \in DOMAIN sessionChecks
    /\ InFlight < MaxInFlight
    /\ sessionChecks' = RemoveAt(sessionChecks, i)
    /\ IF sessionChecks[i].live
       THEN /\ user' = s
            /\ authReady' = TRUE
            /\ runs' = RunsAfterCommit(runs, s, restaurantLoaded,
                                       restaurantCheckAttempts, freshUser, FALSE)
            /\ loading' = (loading \/ StartsRun(s, restaurantLoaded,
                                                 restaurantCheckAttempts, freshUser))
            /\ retryTimer' = TimerAfterCommit(retryTimer, s, restaurantLoaded,
                                              restaurantCheckAttempts, freshUser)
       ELSE UNCHANGED <<user, authReady, runs, loading, retryTimer>>
    /\ UNCHANGED <<dashMounted, owner, orders, myRestaurant, restaurantLoaded,
                   restaurantCheckAttempts, products, orderLoads, productLoads,
                   signOuts, epNotFound, epRetries, epRetryLookups, loadOutcome, storeVars, histVars, uiVars>>
    /\ PageAfterCommit

\* the callback without setRestaurantCheckAttempts(0)
AuthStateChangeKeepsCount(s, freshUser) ==
    /\ dashMounted
    /\ InFlight < MaxInFlight
    /\ user' = s
    /\ authReady' = TRUE
    /\ restaurantLoaded' = FALSE
    /\ runs' = RunsAfterCommit(runs, s, FALSE, restaurantCheckAttempts, freshUser,
                               FALSE)
    /\ loading' = (loading \/ StartsRun(s, FALSE, restaurantCheckAttempts, freshUser))
    /\ retryTimer' = "none"
    /\ epNotFound' = 0
    /\ epRetries' = 0
    /\ epRetryLookups' = 0
    /\ UNCHANGED <<dashMounted, owner, orders, myRestaurant, products, sessionChecks,
                   restaurantCheckAttempts, orderLoads, productLoads, signOuts,
                   loadOutcome, storeVars, histVars, uiVars>>
    /\ PageAfterCommit

\* the onAuthStateChange callback: fires on every session transition
AuthStateChange(s, freshUser) ==
    /\ dashMounted
    /\ InFlight < MaxInFlight
    /\ user' = s
    /\ authReady' = TRUE
    /\ restaurantLoaded' = FALSE
    /\ restaurantCheckAttempts' = 0
    /\ runs' = RunsAfterCommit(runs, s, FALSE, 0, freshUser, FALSE)
    /\ loading' = (loading \/ StartsRun(s, FALSE, 0, freshUser))
    /\ retryTimer' = "none"
    /\ epNotFound' = 0
    /\ epRetries' = 0
    /\ epRetryLookups' = 0
    /\ UNCHANGED <<dashMounted, owner, orders, myRestaurant, products, sessionChecks,
                   orderLoads, productLoads, signOuts, loadOutcome, storeVars, histVars, uiVars>>
    /\ PageAfterCommit

(***************************************************************************)
(* loadMyData (lines 799-834): the continuation of the owner lookup.       *)
(***************************************************************************)
\* throw ownerError -> catch: setMyRestaurant(null); setRestaurantLoaded(true);
\* finally: setLoading(false)   (each only if (mounted))
OwnerLookupFailed(i) ==
    IF runs[i].mounted
    THEN /\ myRestaurant' = Null
         /\ restaurantLoaded' = TRUE
         /\ loading' = FALSE
         /\ runs' = RunsAfterCommit([runs EXCEPT ![i].pc = "done"], user, TRUE,
                                    restaurantCheckAttempts, FALSE, FALSE)
         /\ retryTimer' = TimerAfterCommit(retryTimer, user, TRUE,
                                           restaurantCheckAttempts, FALSE)
         /\ UNCHANGED <<owner, epRetryLookups>>
    ELSE /\ runs' = DropOver([runs EXCEPT ![i].pc = "done"])
         /\ UNCHANGED <<myRestaurant, restaurantLoaded, loading, owner,
                        retryTimer, epRetryLookups>>

\* if (mounted) setOwner(ownerData); then the restaurant lookup is issued
OwnerLookupDone(i, res) ==
    /\ runs' = [runs EXCEPT ![i].pc = "restaurant"]
    /\ owner' = IF ~runs[i].mounted THEN owner
                ELSE IF res = "row" THEN OwnerRowOf(runs[i].user) ELSE Null
    /\ epRetryLookups' = IF runs[i].mounted /\ runs[i].retry
                         THEN Min(epRetryLookups + 1, MaxCount)
                         ELSE epRetryLookups
    /\ UNCHANGED <<myRestaurant, restaurantLoaded, loading, retryTimer>>

OwnerResult(i, res) ==
    /\ i \in DOMAIN runs
    /\ runs[i].pc = "owner"
    /\ IF res = "error" THEN OwnerLookupFailed(i) ELSE OwnerLookupDone(i, res)
    /\ UNCHANGED <<dashMounted, user, authReady, orders, restaurantCheckAttempts,
                   products, sessionChecks, orderLoads, productLoads, signOuts,
                   epNotFound, epRetries, loadOutcome, storeVars, regVars,
                   histVars, uiVars>>

(***************************************************************************)
(* loadMyData: the continuation of the restaurant lookup.                  *)
(***************************************************************************)
\* restaurantError.code === 'PGRST116' && restaurantCheckAttempts < 3:
\* setRestaurantCheckAttempts(prev => prev + 1);
\* retryTimeout = setTimeout(() => { setRestaurantLoaded(false); }, 2000); return;
\* finally setLoading(false); then the commit re-runs the effect
RestaurantNotFoundRetry(i) ==
    LET a2 == restaurantCheckAttempts + 1
        rs == [runs EXCEPT ![i].pc = "done", ![i].retryTimeout = "pending"]
    IN /\ restaurantCheckAttempts' = a2
       /\ runs' = RunsAfterCommit(rs, user, restaurantLoaded, a2, FALSE, TRUE)
       /\ loading' = StartsRun(user, restaurantLoaded, a2, FALSE)
       /\ retryTimer' = TimerAfterCommit("pending", user, restaurantLoaded, a2, FALSE)
       /\ epNotFound' = Min(epNotFound + 1, MaxCount)
       /\ epRetries' = IF StartsRun(user, restaurantLoaded, a2, FALSE)
                       THEN Min(epRetries + 1, MaxCount) ELSE epRetries
       /\ UNCHANGED <<myRestaurant, restaurantLoaded, orderLoads, productLoads>>

\* setMyRestaurant(restaurantData || null); setRestaurantLoaded(true);
\* finally setLoading(false); then the commit: both effects
RestaurantSettled(i, row, notFound) ==
    /\ row # Null => InFlight < MaxInFlight
    /\ myRestaurant' = row
    /\ restaurantLoaded' = TRUE
    /\ runs' = RunsAfterCommit([runs EXCEPT ![i].pc = "done"], user, TRUE,
                               restaurantCheckAttempts, FALSE, FALSE)
    /\ retryTimer' = TimerAfterCommit(retryTimer, user, TRUE,
                                      restaurantCheckAttempts, FALSE)
    /\ orderLoads' = OrderLoadsAfterCommit(orderLoads, row, TRUE)
    /\ productLoads' = ProductLoadsAfterCommit(productLoads, row, TRUE)
    /\ loading' = StartsLoads(row, TRUE)
    /\ epNotFound' = IF notFound THEN Min(epNotFound + 1, MaxCount) ELSE epNotFound
    /\ UNCHANGED <<restaurantCheckAttempts, epRetries>>

\* the result reaches a run whose cleanup has run: if (mounted) is false
RestaurantResultStale(i) ==
    /\ runs' = DropOver([runs EXCEPT ![i].pc = "done"])
    /\ UNCHANGED <<myRestaurant, restaurantLoaded, restaurantCheckAttempts,
                   loading, retryTimer, orderLoads, productLoads, epNotFound,
                   epRetries>>

\* the retry branch taken once too often: <= 3 for < 3
RestaurantResultOffByOne(i, res) ==
    /\ i \in DOMAIN runs
    /\ runs[i].pc = "restaurant"
    /\ IF ~runs[i].mounted
       THEN RestaurantResultStale(i)
       ELSE IF res = "PGRST116" /\ runs[i].attempts <= MaxCheckAttempts
            THEN RestaurantNotFoundRetry(i)
       ELSE IF res = "row"
            THEN RestaurantSettled(i, RestaurantOf(runs[i].user), FALSE)
       ELSE RestaurantSettled(i, Null, res = "PGRST116")
    /\ UNCHANGED <<dashMounted, user, authReady, owner, orders, products,
                   sessionChecks, signOuts, epRetryLookups, loadOutcome, storeVars, regVars,
                   histVars, uiVars>>

\* every error of the restaurant lookup taken for NotFound
RestaurantResultRetriesOnError(i, res) ==
    /\ i \in DOMAIN runs
    /\ runs[i].pc = "restaurant"
    /\ IF ~runs[i].mounted
       THEN RestaurantResultStale(i)
       ELSE IF res \in {"PGRST116", "error"} /\ runs[i].attempts < MaxCheckAttempts
            THEN RestaurantNotFoundRetry(i)
       ELSE IF res = "row"
            THEN RestaurantSettled(i, RestaurantOf(runs[i].user), FALSE)
       ELSE RestaurantSettled(i, Null, res = "PGRST116")
    /\ UNCHANGED <<dashMounted, user, authReady, owner, orders, products,
                   sessionChecks, signOuts, epRetryLookups, loadOutcome, storeVars, regVars,
                   histVars, uiVars>>

RestaurantResult(i, res) ==
    /\ i \in DOMAIN runs
    /\ runs[i].pc = "restaurant"
    /\ IF ~runs[i].mounted
       THEN RestaurantResultStale(i)
       ELSE IF res = "PGRST116" /\ runs[i].attempts < MaxCheckAttempts
            THEN RestaurantNotFoundRetry(i)
       ELSE IF res = "row"
            THEN RestaurantSettled(i, RestaurantOf(runs[i].user), FALSE)
       ELSE RestaurantSettled(i, Null, res = "PGRST116")
    /\ UNCHANGED <<dashMounted, user, authReady, owner, orders, products,
                   sessionChecks, signOuts, epRetryLookups, loadOutcome, storeVars, regVars,
                   histVars, uiVars>>

\* the callback of the retry timer: () => { setRestaurantLoaded(false); }
\* No reachable state enables it (NoPendingRetryTimer below): the commit of the
\* callback that scheduled the timer has already cleared it.  It is therefore
\* no disjunct of Next.
RetryTimerFires(i) ==
    /\ i \in DOMAIN runs
    /\ runs[i].retryTimeout = "pending"
    /\ retryTimer' = "fired"
    /\ IF dashMounted
       THEN /\ restaurantLoaded' = FALSE
            /\ runs' = RunsAfterCommit([runs EXCEPT ![i].retryTimeout = "fired"],
                           user, FALSE, restaurantCheckAttempts, FALSE, FALSE)
            /\ loading' = (loading \/ StartsRun(user, FALSE,
                                                restaurantCheckAttempts, FALSE))
       ELSE /\ runs' = Cleanup([runs EXCEPT ![i].retryTimeout = "fired"])
            /\ UNCHANGED <<restaurantLoaded, loading>>
    /\ UNCHANGED <<dashMounted, user, authReady, owner, orders, myRestaurant,
                   restaurantCheckAttempts, products, sessionChecks, orderLoads,
                   productLoads, signOuts, epNotFound, epRetries, epRetryLookups,
                   loadOutcome, storeVars, regVars,
                   histVars, uiVars>>

(***************************************************************************)
(* handleSignOut (lines 851-859).                                          *)
(***************************************************************************)
\* the Logout button of the main view and of the "No Restaurant Linked" view
SignOutStart ==
    /\ View \in {"main", "noRestaurant"}
    /\ InFlight < MaxInFlight
    /\ signOuts' = Append(signOuts, NewCall)
    /\ UNCHANGED <<dashState, sessionChecks, runs, orderLoads, productLoads,
                   ghostVars, storeVars, regVars,
                   histVars, uiVars>>

\* the continuation of await supabase.auth.signOut()
SignOutDone(i) ==
    /\ i \in DOMAIN signOuts
    /\ signOuts' = RemoveAt(signOuts, i)
    /\ IF signOuts[i].live
       THEN /\ user' = NoUser
            /\ owner' = Null
            /\ myRestaurant' = Null
            /\ orders' = <<>>
            /\ restaurantLoaded' = FALSE
            /\ restaurantCheckAttempts' = 0
            /\ runs' = RunsAfterCommit(runs, NoUser, FALSE, 0, FALSE, FALSE)
            /\ retryTimer' = "none"
            /\ epNotFound' = 0
            /\ epRetries' = 0
            /\ epRetryLookups' = 0
       ELSE UNCHANGED <<user, owner, myRestaurant, orders, restaurantLoaded,
                        restaurantCheckAttempts, runs, retryTimer, epNotFound,
                        epRetries, epRetryLookups>>
    /\ UNCHANGED <<dashMounted, authReady, loading, products, sessionChecks,
                   orderLoads, productLoads, loadOutcome, storeVars, histVars, uiVars>>
    /\ PageAfterCommit

(***************************************************************************)
(* The dashboard is torn down: React runs the cleanup of every effect.     *)
(***************************************************************************)
Unmount ==
    /\ dashMounted
    /\ dashMounted' = FALSE
    /\ runs' = Cleanup(runs)
    /\ retryTimer' = IF retryTimer = "pending" THEN "cleared" ELSE retryTimer
    /\ orderLoads' = Dead(orderLoads)
    /\ productLoads' = Dead(productLoads)
    /\ statusWrites' = Dead(statusWrites)
    /\ productWrites' = Dead(productWrites)
    /\ sessionChecks' = Dead(sessionChecks)
    /\ signOuts' = Dead(signOuts)
    /\ profileCalls' = Dead(profileCalls)
    /\ UNCHANGED <<user, authReady, owner, orders, loading, myRestaurant,
                   restaurantLoaded, restaurantCheckAttempts, products,
                   epNotFound, epRetries, epRetryLookups,
                   loadOutcome, storeVars, histVars, filterVars, writeOutcome,
                   writesIssued, isUpdatingProfile, dateNow, sidebarVars>>
    /\ IF AuthPageShown
       THEN NewPage(isLogin', error', successMessage', pageLoading')
       ELSE UNCHANGED <<isLogin, error, successMessage, pageLoading>>
    /\ authCalls' = [k \in DOMAIN authCalls |->
                         [authCalls[k] EXCEPT !.live = FALSE, !.dashLive = FALSE]]

(***************************************************************************)
(* loadOrders (lines 658-717) and loadProducts (lines 720-729).  Neither   *)
(* checks that the component is still mounted or that myRestaurant is      *)
(* still the restaurant it was called for; React drops a state update of   *)
(* an unmounted component.                                                 *)
(***************************************************************************)
\* the refresh button of the orders tab: onClick={loadOrders}
RefreshOrders ==
    /\ View = "main"
    /\ activeTab = "orders"
    /\ InFlight < MaxInFlight
    /\ orderLoads' = Append(orderLoads, NewOrderLoad(myRestaurant))
    /\ loading' = TRUE
    /\ UNCHANGED <<dashMounted, user, authReady, owner, orders, myRestaurant,
                   restaurantLoaded, restaurantCheckAttempts, products,
                   sessionChecks, runs, productLoads, signOuts, ghostVars,
                   storeVars, regVars,
                   histVars, uiVars>>

\* the items continuation without the early return on no rows
ItemsResultNoEarlyReturn(i, res) ==
    /\ i \in DOMAIN orderLoads
    /\ orderLoads[i].pc = "items"
    /\ LET items == FetchItems(orderLoads[i].rest)
       IN IF res = "error"
          THEN /\ orderLoads' = RemoveAt(orderLoads, i)
               /\ loading' = IF orderLoads[i].live THEN FALSE ELSE loading
               /\ loadOutcome' = "failed"
               /\ UNCHANGED orders
          ELSE /\ orderLoads' = [orderLoads EXCEPT ![i].pc = "headers",
                                                   ![i].items = items,
                                                   ![i].ids = UniqueOrderIds(items)]
               /\ UNCHANGED <<orders, loading, loadOutcome>>
    /\ UNCHANGED <<dashMounted, user, authReady, owner, myRestaurant,
                   restaurantLoaded, restaurantCheckAttempts, products,
                   sessionChecks, runs, productLoads, signOuts, epNotFound,
                   epRetries, epRetryLookups, retryTimer, storeVars, regVars,
                   histVars, uiVars>>

\* the continuation of the order_items fetch
ItemsResult(i, res) ==
    /\ i \in DOMAIN orderLoads
    /\ orderLoads[i].pc = "items"
    /\ LET items == FetchItems(orderLoads[i].rest)
           uniqueOrderIds == UniqueOrderIds(items)
       IN IF res = "error"
          THEN \* throw itemsError -> catch -> finally setLoading(false)
               /\ orderLoads' = RemoveAt(orderLoads, i)
               /\ loading' = IF orderLoads[i].live THEN FALSE ELSE loading
               /\ loadOutcome' = "failed"
               /\ UNCHANGED orders
          ELSE IF Len(uniqueOrderIds) = 0
          THEN \* setOrders([]); setLoading(false); return;
               /\ orderLoads' = RemoveAt(orderLoads, i)
               /\ orders' = IF orderLoads[i].live THEN <<>> ELSE orders
               /\ loading' = IF orderLoads[i].live THEN FALSE ELSE loading
               /\ loadOutcome' = "empty"
          ELSE \* the order headers are fetched
               /\ orderLoads' = [orderLoads EXCEPT ![i].pc = "headers",
                                                   ![i].items = items,
                                                   ![i].ids = uniqueOrderIds]
               /\ UNCHANGED <<orders, loading, loadOutcome>>
    /\ UNCHANGED <<dashMounted, user, authReady, owner, myRestaurant,
                   restaurantLoaded, restaurantCheckAttempts, products,
                   sessionChecks, runs, productLoads, signOuts, epNotFound,
                   epRetries, epRetryLookups, retryTimer, storeVars, regVars,
                   histVars, uiVars>>

\* the headers continuation with a catch that empties the list
HeadersResultClearsOnError(i, res) ==
    /\ i \in DOMAIN orderLoads
    /\ orderLoads[i].pc = "headers"
    /\ orderLoads' = RemoveAt(orderLoads, i)
    /\ loading' = IF orderLoads[i].live THEN FALSE ELSE loading
    /\ orders' = IF ~orderLoads[i].live THEN orders
                 ELSE IF res = "ok"
                 THEN FullOrders(FetchHeaders(orderLoads[i].ids), orderLoads[i].items)
                 ELSE <<>>
    /\ loadOutcome' = IF res = "ok" THEN "filled" ELSE "failed"
    /\ UNCHANGED <<dashMounted, user, authReady, owner, myRestaurant,
                   restaurantLoaded, restaurantCheckAttempts, products,
                   sessionChecks, runs, productLoads, signOuts, epNotFound,
                   epRetries, epRetryLookups, retryTimer, storeVars, regVars,
                   histVars, uiVars>>

\* the continuation of the orders fetch
HeadersResult(i, res) ==
    /\ i \in DOMAIN orderLoads
    /\ orderLoads[i].pc = "headers"
    /\ orderLoads' = RemoveAt(orderLoads, i)
    /\ loading' = IF orderLoads[i].live THEN FALSE ELSE loading
    /\ orders' = IF res = "ok" /\ orderLoads[i].live
                 THEN FullOrders(FetchHeaders(orderLoads[i].ids), orderLoads[i].items)
                 ELSE orders
    /\ loadOutcome' = IF res = "ok" THEN "filled" ELSE "failed"
    /\ UNCHANGED <<dashMounted, user, authReady, owner, myRestaurant,
                   restaurantLoaded, restaurantCheckAttempts, products,
                   sessionChecks, runs, productLoads, signOuts, epNotFound,
                   epRetries, epRetryLookups, retryTimer, storeVars, regVars,
                   histVars, uiVars>>

\* the continuation of the food_items fetch of loadProducts:
\* if (error) throw error; setProducts(data || []); the catch only logs.  When
\* handleProductSubmit awaits the call, it goes on whatever the fetch
\* answered: setShowProductModal(false); setEditingProduct(null);
\* setProductForm({...}) (lines 757-759)
ProductsResult(i, res) ==
    /\ i \in DOMAIN productLoads
    /\ productLoads' = RemoveAt(productLoads, i)
    /\ IF res = "ok" /\ productLoads[i].live
       THEN products' \in ProductFetches(productLoads[i].rest)
       ELSE UNCHANGED products
    /\ IF productLoads[i].submit /\ productLoads[i].live
       THEN /\ showProductModal' = FALSE
            /\ editingProduct' = <<>>
       ELSE UNCHANGED <<showProductModal, editingProduct>>
    /\ UNCHANGED <<dashMounted, user, authReady, owner, orders, loading,
                   myRestaurant, restaurantLoaded, restaurantCheckAttempts,
                   sessionChecks, runs, orderLoads, signOuts, ghostVars,
                   storeVars, regVars, histVars, statusWrites, filterVars,
                   writeOutcome, writesIssued, isUpdatingProfile, profileCalls,
                   productWrites, dateNow, activeTab, showProfileModal>>

(***************************************************************************)
(* updateOrderStatus (lines 639-656) and the buttons that call it (lines   *)
(* 1071-1090).  The callback is useCallback(..., [orders]): a call works   *)
(* on the order list of the render in which its button was pressed.        *)
(***************************************************************************)
\* const ORDER_STATUSES = [...]
ORDER_STATUSES ==
    <<"Pending", "Preparing", "Driver Assigned", "Out for Delivery", "Delivered",
      "Completed", "Cancelled">>

\* getNextStatus: nextStatuses[current] || null
GetNextStatus(current) ==
    IF current = "Pending" THEN "Preparing"
    ELSE IF current = "Preparing" THEN "Driver Assigned"
    ELSE IF current = "Driver Assigned" THEN "Out for Delivery"
    ELSE IF current = "Out for Delivery" THEN "Delivered"
    ELSE IF current = "Delivered" THEN "Completed"
    ELSE Null

\* orders.filter(order => statusFilter === 'all' || order.status === statusFilter)
FilteredOrders ==
    SelectSeq(orders, LAMBDA o : statusFilter = "all" \/ o.status = statusFilter)

\* the cards of the orders tab are rendered: {activeTab === 'orders' && ...
\* {loading ? <Loading /> : ...}
OrderCardsShown == View = "main" /\ activeTab = "orders" /\ ~loading

\* updateOrderStatus(orderId, newStatus) up to its await: the update is issued
UpdateOrderStatus(orderId, newStatus) ==
    /\ InFlight < MaxInFlight
    /\ writesIssued < MaxStatusWrites
    /\ writesIssued' = writesIssued + 1
    /\ statusWrites' = Append(statusWrites, [orderId |-> orderId,
                                             newStatus |-> newStatus,
                                             orders |-> orders,
                                             live |-> TRUE])
    /\ UNCHANGED <<dashVars, storeVars, regVars, histVars, filterVars,
                   writeOutcome, manageVars>>

\* the button "Mark as ..." of card k (lines 1071-1080)
MarkAsNext(k) ==
    /\ OrderCardsShown
    /\ k \in DOMAIN FilteredOrders
    /\ FilteredOrders[k].status \notin {"Completed", "Cancelled"}
    /\ GetNextStatus(FilteredOrders[k].status) # Null
    /\ UpdateOrderStatus(FilteredOrders[k].id, GetNextStatus(FilteredOrders[k].status))

\* the button "Cancel Order" of card k (lines 1081-1088)
CancelOrder(k) ==
    /\ OrderCardsShown
    /\ k \in DOMAIN FilteredOrders
    /\ FilteredOrders[k].status \notin {"Completed", "Cancelled"}
    /\ FilteredOrders[k].status \in {"Pending", "Preparing"}
    /\ UpdateOrderStatus(FilteredOrders[k].id, "Cancelled")

\* .from('orders').update({ status: newStatus }).eq('id', orderId)
UpdateStatus(rows, orderId, newStatus) ==
    [k \in DOMAIN rows |->
        IF rows[k].id = orderId THEN [rows[k] EXCEPT !.status = newStatus]
        ELSE rows[k]]

\* orders.map(o => o.id === orderId ? { ...o, status: newStatus } : o)
Patched(os, orderId, newStatus) ==
    [k \in DOMAIN os |->
        IF os[k].id = orderId THEN [os[k] EXCEPT !.status = newStatus] ELSE os[k]]

\* the continuation that patches the list whatever the store answered
StatusWriteResultPatchesAlways(i, res) ==
    /\ i \in DOMAIN statusWrites
    /\ statusWrites' = RemoveAt(statusWrites, i)
    /\ writeOutcome' = res
    /\ LET w == statusWrites[i]
       IN /\ dbOrders' = IF res = "ok"
                         THEN UpdateStatus(dbOrders, w.orderId, w.newStatus)
                         ELSE dbOrders
          /\ orders' = IF w.live
                       THEN Patched(w.orders, w.orderId, w.newStatus)
                       ELSE orders
    /\ UNCHANGED <<dashMounted, user, authReady, owner, loading, myRestaurant,
                   restaurantLoaded, restaurantCheckAttempts, products, dashAsync,
                   ghostVars, dbOrderItems, dbFoodItems, dbOwners, dbRestaurants,
                   regVars, histVars,
                   filterVars, writesIssued, manageVars>>

\* the store applies the update and answers; the continuation of the await:
\* if (error) throw error; setOrders(orders.map(...)); the catch only logs
StatusWriteResult(i, res) ==
    /\ i \in DOMAIN statusWrites
    /\ statusWrites' = RemoveAt(statusWrites, i)
    /\ writeOutcome' = res
    /\ LET w == statusWrites[i]
       IN IF res = "ok"
          THEN /\ dbOrders' = UpdateStatus(dbOrders, w.orderId, w.newStatus)
               /\ orders' = IF w.live
                            THEN Patched(w.orders, w.orderId, w.newStatus)
                            ELSE orders
          ELSE UNCHANGED <<dbOrders, orders>>
    /\ UNCHANGED <<dashMounted, user, authReady, owner, loading, myRestaurant,
                   restaurantLoaded, restaurantCheckAttempts, products, dashAsync,
                   ghostVars, dbOrderItems, dbFoodItems, dbOwners, dbRestaurants,
                   regVars, histVars,
                   filterVars, writesIssued, manageVars>>

(***************************************************************************)
(* The dashboard from its mount on, over a store without orders and        *)
(* products (a newly registered restaurant).                               *)
(***************************************************************************)
Sessions == Users \cup {NoUser}
FetchResults == {"ok", "error"}

InitDashboard ==
    /\ dashMounted = TRUE
    /\ user = NoUser
    /\ authReady = FALSE
    /\ owner = Null
    /\ orders = <<>>
    /\ loading = TRUE
    /\ myRestaurant = Null
    /\ restaurantLoaded = FALSE
    /\ restaurantCheckAttempts = 0
    /\ products = <<>>
    /\ sessionChecks = <<NewCall>>
    /\ runs = <<>>
    /\ orderLoads = <<>>
    /\ productLoads = <<>>
    /\ signOuts = <<>>
    /\ epNotFound = 0
    /\ epRetries = 0
    /\ epRetryLookups = 0
    /\ retryTimer = "none"
    /\ loadOutcome = "none"

\* no page instance has run handleAuth yet
InitAuthPage ==
    /\ NewPage(isLogin, error, successMessage, pageLoading)
    /\ authCalls = <<>>

\* no profile update and no product write has been started
InitManage ==
    /\ isUpdatingProfile = FALSE
    /\ profileCalls = <<>>
    /\ productWrites = <<>>
    /\ dateNow = 0
    /\ activeTab = "orders"
    /\ showProductModal = FALSE
    /\ showProfileModal = FALSE
    /\ editingProduct = <<>>

\* no status write was issued; nothing was stored under STATUS_FILTER_KEY
\* before the mount, so the filter starts as 'all' and the effect of lines
\* 609-613 has stored it
InitUi ==
    /\ statusWrites = <<>>
    /\ statusFilter = "all"
    /\ savedFilter = "all"
    /\ filterPicked = Null
    /\ writeOutcome = "none"
    /\ writesIssued = 0
    /\ InitManage

\* the order history view is not mounted
InitNoHistory ==
    /\ histMounted = FALSE
    /\ histUser = NoUser
    /\ groupedOrders = <<>>
    /\ histLoading = TRUE
    /\ histFetches = <<>>
    /\ histDb = <<>>

Init ==
    /\ InitDashboard
    /\ InitAuthPage
    /\ InitUi
    /\ InitNoHistory
    /\ dbOrderItems = <<>>
    /\ dbOrders = <<>>
    /\ dbFoodItems = <<>>
    /\ dbOwners = {}
    /\ dbRestaurants = {}

Next ==
    \/ \E i \in 1..MaxInFlight, s \in Sessions, f \in BOOLEAN : CheckAuthResult(i, s, f)
    \/ \E s \in Sessions, f \in BOOLEAN : AuthStateChange(s, f)
    \/ \E i \in 1..MaxInFlight, res \in LookupResults : OwnerResult(i, res)
    \/ \E i \in 1..MaxInFlight, res \in LookupResults : RestaurantResult(i, res)
    \/ SignOutStart
    \/ \E i \in 1..MaxInFlight : SignOutDone(i)
    \/ Unmount
    \/ RefreshOrders
    \/ \E i \in 1..MaxInFlight, res \in FetchResults : ItemsResult(i, res)
    \/ \E i \in 1..MaxInFlight, res \in FetchResults : ProductsResult(i, res)

Spec == Init /\ [][Next]_vars

(***************************************************************************)
(* Properties of the provisioning effect.                                  *)
(***************************************************************************)
\* the run of the effect whose cleanup has not run yet, if any
MountedRuns == {k \in DOMAIN runs : runs[k].mounted}

\* run k was started for an identity that is gone, was superseded by a later
\* run of the effect, or belongs to a dashboard that was torn down
Stale(k) == ~dashMounted \/ k < Len(runs) \/ runs[k].user # user

\* no state holds a retry timer that can still fire, so RetryTimerFires is
\* never enabled
NoPendingRetryTimer == \A k \in DOMAIN runs : runs[k].retryTimeout # "pending"

\* the checking episode ended in not-found-final
NotFoundFinal == restaurantLoaded /\ myRestaurant = Null

\* the checking episode ended in found
Found == restaurantLoaded /\ myRestaurant # Null

\* C1: within a checking episode every NotFound result seen while the attempt
\* counter is below 3 increments the counter by one and starts exactly one
\* further run of loadMyData (which issues at most one restaurant lookup); a
\* NotFound seen at counter 3 ends the episode in not-found-final.  So 3
\* NotFound results and a success end in found after exactly 3 retries, and a
\* 4th NotFound ends in not-found-final with no further run and no 5th lookup.
C1_RetryCount ==
    /\ restaurantCheckAttempts = Min(epNotFound, MaxCheckAttempts)
    /\ epRetries = restaurantCheckAttempts
    /\ epRetryLookups <= epRetries
    /\ epNotFound <= MaxCheckAttempts + 1
    /\ epNotFound = MaxCheckAttempts + 1
           => NotFoundFinal /\ \A k \in MountedRuns : runs[k].pc = "done"
    /\ (Found /\ epNotFound = MaxCheckAttempts) => epRetries = MaxCheckAttempts

\* found after 3 consecutive NotFound results and a success, with 3 retries
C1_Witness ==
    /\ Found
    /\ epNotFound = MaxCheckAttempts
    /\ epRetries = MaxCheckAttempts
    /\ epRetryLookups = MaxCheckAttempts

\* C2: the retry that a NotFound result causes is issued only after the
\* 2-second timer scheduled for it has fired: whenever a run started as a retry
\* is alive, the retry timer of the episode has fired.
C2_RetryAfterTimer ==
    \A k \in MountedRuns : runs[k].retry => retryTimer = "fired"

\* the result of a lookup reaches run k
ResultStep(k) ==
    \E res \in LookupResults : OwnerResult(k, res) \/ RestaurantResult(k, res)

\* C7: after a teardown or a change of the signed-in identity, no retry timer
\* of an earlier run of the effect can still fire, and the result of a lookup
\* of a stale run sets none of restaurant, owner, loaded flag, attempt counter
\* and loading flag.
C7_NoOrphanTimerNoStaleWrite ==
    /\ [](\A k \in DOMAIN runs : runs[k].retryTimeout = "pending" => ~Stale(k))
    /\ [][\/ UNCHANGED <<myRestaurant, owner, restaurantLoaded,
                         restaurantCheckAttempts, loading>>
          \/ \A k \in DOMAIN runs : ~(Stale(k) /\ ResultStep(k))]_vars

\* the identity changed while the restaurant lookup of a retry was in flight,
\* after a retry timer had been scheduled and cleared
C7_Witness ==
    \E k \in DOMAIN runs :
        /\ runs[k].pc = "restaurant"
        /\ runs[k].user # user
        /\ ~runs[k].mounted
        /\ user # NoUser

\* C14: when the owner lookup or the restaurant lookup of the live run fails
\* with an error other than NotFound, the step ends in not-found-final (no
\* restaurant stored, loaded flag true, loading cleared, the "No Restaurant
\* Linked" screen), the attempt counter keeps its value, no retry timer is
\* left pending and no further run of loadMyData is started.
C14_OtherErrorIsFinal ==
    [][\A k \in DOMAIN runs :
           (runs[k].mounted /\ (OwnerResult(k, "error") \/ RestaurantResult(k, "error")))
               => /\ myRestaurant' = Null
                  /\ restaurantLoaded'
                  /\ ~loading'
                  /\ View' = "noRestaurant"
                  /\ restaurantCheckAttempts' = restaurantCheckAttempts
                  /\ epRetries' = epRetries
                  /\ retryTimer' = retryTimer
                  /\ \A j \in DOMAIN runs' :
                         ~runs'[j].mounted /\ runs'[j].retryTimeout # "pending"]_vars

\* a lookup failed after one NotFound retry: not-found-final with the counter
\* at 1 and no run left
C14_Witness ==
    /\ NotFoundFinal
    /\ View = "noRestaurant"
    /\ restaurantCheckAttempts = 1
    /\ epNotFound = 1
    /\ epRetries = 1
    /\ MountedRuns = {}

\* when the restaurant lookup of the live run returns a row, the step stores
\* exactly that row with the loaded flag true, and its commit issues one
\* loadOrders and one loadProducts for that restaurant
FoundStartsLoads ==
    [][\A k \in DOMAIN runs :
           (runs[k].mounted /\ RestaurantResult(k, "row"))
               => /\ myRestaurant' = RestaurantOf(user)
                  /\ restaurantLoaded'
                  /\ orderLoads' = Append(orderLoads, NewOrderLoad(myRestaurant'))
                  /\ productLoads' = Append(productLoads,
                                            NewProductLoad(myRestaurant'))]_vars

\* an auth state change is delivered
AuthStep == \E s \in Sessions, f \in BOOLEAN : AuthStateChange(s, f)

\* C16: every auth state change delivered to the mounted dashboard and every
\* completed sign-out leaves the attempt counter at 0 and the loaded flag
\* false; with a signed-in user exactly one run of loadMyData is then live, it
\* is for that user and works with the counter at 0, so the episode has its 3
\* retries (C1); with no user no run is live.  The live run always works with
\* the current user and the current counter.
C16_ReauthResets ==
    /\ [](\A k \in MountedRuns :
              /\ runs[k].user = user
              /\ runs[k].attempts = restaurantCheckAttempts
              /\ MountedRuns = {k})
    /\ [][(AuthStep \/ \E i \in DOMAIN signOuts : SignOutDone(i) /\ signOuts[i].live)
             => /\ restaurantCheckAttempts' = 0
                /\ ~restaurantLoaded'
                /\ epNotFound' = 0 /\ epRetries' = 0
                /\ user' = NoUser => MountedRuns' = {}
                /\ user' # NoUser
                       => \E k \in DOMAIN runs' :
                              /\ MountedRuns' = {k}
                              /\ runs'[k].pc # "done"
                              /\ runs'[k].user = user'
                              /\ runs'[k].attempts = 0]_vars

\* an auth state change reached the dashboard in found: the restaurant of the
\* previous episode is still stored while the fresh episode is checking
C16_Witness ==
    /\ dashMounted
    /\ user # NoUser
    /\ myRestaurant # Null
    /\ ~restaurantLoaded
    /\ restaurantCheckAttempts = 0
    /\ epNotFound = 0
    /\ \E k \in MountedRuns : runs[k].attempts = 0 /\ runs[k].pc = "owner"

(***************************************************************************)
(* The order queue: the dashboard from the commit that found the           *)
(* restaurant of "u1" on (loadOrders and loadProducts just called), over a *)
(* store with orders and products.                                         *)
(***************************************************************************)
FoodItems ==
    <<[food_item_id |-> <<"r1", -2>>, name |-> 2, restaurant_id |-> "r1"],
      [food_item_id |-> <<"r1", -1>>, name |-> 1, restaurant_id |-> "r1"],
      [food_item_id |-> <<"r2", -1>>, name |-> 1, restaurant_id |-> "r2"]>>

InitQueue ==
    /\ dashMounted = TRUE
    /\ user = "u1"
    /\ authReady = TRUE
    /\ owner = OwnerRowOf("u1")
    /\ orders = <<>>
    /\ loading = TRUE
    /\ myRestaurant = RestaurantOf("u1")
    /\ restaurantLoaded = TRUE
    /\ restaurantCheckAttempts = 0
    /\ products = <<>>
    /\ sessionChecks = <<>>
    /\ runs = <<>>
    /\ orderLoads = <<NewOrderLoad(RestaurantOf("u1"))>>
    /\ productLoads = <<NewProductLoad(RestaurantOf("u1"))>>
    /\ signOuts = <<>>
    /\ epNotFound = 0
    /\ epRetries = 0
    /\ epRetryLookups = 0
    /\ retryTimer = "none"
    /\ loadOutcome = "none"
    /\ dbOrderItems \in SeqsUpTo(LineItems, MaxItems)
    /\ dbOrders = <<Header("o1"), Header("o2")>>
    /\ dbFoodItems = FoodItems
    /\ dbOwners = {"u1"}
    /\ dbRestaurants = {"u1"}
    /\ InitAuthPage
    /\ InitUi
    /\ InitNoHistory

NextQueue ==
    \/ RefreshOrders
    \/ \E i \in 1..MaxInFlight, res \in FetchResults : ItemsResult(i, res)
    \/ \E i \in 1..MaxInFlight, res \in FetchResults : HeadersResult(i, res)
    \/ \E i \in 1..MaxInFlight, res \in FetchResults : ProductsResult(i, res)
    \/ SignOutStart
    \/ \E i \in 1..MaxInFlight : SignOutDone(i)
    \/ Unmount

SpecQueue == InitQueue /\ [][NextQueue]_vars

(***************************************************************************)
(* Properties of loadOrders and loadProducts.                              *)
(***************************************************************************)
\* the result of a fetch reaches loadOrders call i
OrderLoadStep(i) ==
    \E res \in FetchResults : ItemsResult(i, res) \/ HeadersResult(i, res)

\* C8: a result of loadOrders or loadProducts that was issued for an earlier
\* restaurant (an earlier identity), or before the dashboard was torn down,
\* writes neither orders nor products.
C8_NoLateWrite ==
    [][/\ \A i \in DOMAIN orderLoads :
              (OrderLoadStep(i) /\ (~dashMounted \/ orderLoads[i].rest # myRestaurant))
                  => UNCHANGED <<orders, products>>
       /\ \A i \in DOMAIN productLoads :
              ((\E res \in FetchResults : ProductsResult(i, res))
                   /\ (~dashMounted \/ productLoads[i].rest # myRestaurant))
                  => UNCHANGED <<orders, products>>]_vars

\* the loadOrders calls awaiting the order headers
HeaderFetches(ls) == Cardinality({k \in DOMAIN ls : ls[k].pc = "headers"})

\* C9: when the line-item fetch of a loadOrders call returns zero rows, the call
\* ends without an order-header fetch, the order list becomes empty and loading
\* is cleared.
C9_EmptyItemsNoHeaderFetch ==
    [][\A i \in DOMAIN orderLoads :
           (ItemsResult(i, "ok") /\ FetchItems(orderLoads[i].rest) = <<>>)
               => /\ HeaderFetches(orderLoads') = HeaderFetches(orderLoads)
                  /\ Len(orderLoads') = Len(orderLoads) - 1
                  /\ dashMounted => (orders' = <<>> /\ ~loading')]_vars

\* a loadOrders call found no line of the restaurant in a store that holds
\* lines of the other restaurant
C9_Witness ==
    /\ loadOutcome = "empty"
    /\ dashMounted
    /\ myRestaurant # Null
    /\ FetchItems(myRestaurant) = <<>>
    /\ dbOrderItems # <<>>
    /\ orders = <<>>
    /\ ~loading
    /\ orderLoads = <<>>

\* the amount, in eighths of a hundredth, that a fixed-2 decimal text denotes
Amount(text) == (text[1] * 100 + text[2]) * 8

\* the sum of price x quantity over the lines
RECURSIVE SumOfLines(_)
SumOfLines(lines) ==
    IF lines = <<>> THEN 0
    ELSE lines[1].price * lines[1].quantity + SumOfLines(Tail(lines))

\* the order list os holds exactly the headers of the orders that the fetched
\* lines reference, newest first, each with exactly its lines
HoldsHeadersAndLines(os, lines) ==
    /\ {os[k].id : k \in DOMAIN os} = {lines[j].order_id : j \in DOMAIN lines}
    /\ \A j, k \in DOMAIN os : j < k => os[j].created_at > os[k].created_at
    /\ \A k \in DOMAIN os :
           LET mine == SelectSeq(lines, LAMBDA l : l.order_id = os[k].id)
           IN /\ \E h \in DOMAIN dbOrders :
                     /\ dbOrders[h].id = os[k].id
                     /\ dbOrders[h].created_at = os[k].created_at
                     /\ dbOrders[h].status = os[k].status
              /\ Len(os[k].order_items) = Len(mine)
              /\ Len(mine) >= 1
              /\ \A j \in DOMAIN mine :
                     /\ os[k].order_items[j].name = mine[j].name
                     /\ os[k].order_items[j].price = mine[j].price
                     /\ os[k].order_items[j].quantity = mine[j].quantity

\* C10: after a successful loadOrders the order list holds exactly the fetched
\* headers of the orders referenced by a line of this restaurant, newest first,
\* each with exactly the fetched lines of its id, and restaurant_subtotal is the
\* sum of price x quantity over those lines rounded to 2 decimals.
C10_QueueResultRounded ==
    [][\A i \in DOMAIN orderLoads :
           (HeadersResult(i, "ok") /\ dashMounted)
               => LET lines == FetchItems(orderLoads[i].rest)
                  IN /\ HoldsHeadersAndLines(orders', lines)
                     /\ \A k \in DOMAIN orders' :
                            orders'[k].restaurant_subtotal =
                                ToFixed2(SumOfLines(orders'[k].order_items))]_vars

\* C10 as stated: restaurant_subtotal equals the sum of price x quantity
C10_QueueResultExact ==
    [][\A i \in DOMAIN orderLoads :
           (HeadersResult(i, "ok") /\ dashMounted)
               => LET lines == FetchItems(orderLoads[i].rest)
                  IN /\ HoldsHeadersAndLines(orders', lines)
                     /\ \A k \in DOMAIN orders' :
                            Amount(orders'[k].restaurant_subtotal) =
                                100 * SumOfLines(orders'[k].order_items)]_vars

\* a successful loadOrders left two orders, the newer one first, one of them
\* with a subtotal that has more than 2 decimals
C10_Witness ==
    /\ loadOutcome = "filled"
    /\ dashMounted
    /\ Len(orders) = 2
    /\ orders[1].id = "o2"
    /\ \E k \in DOMAIN orders :
           Amount(orders[k].restaurant_subtotal)
               # 100 * SumOfLines(orders[k].order_items)

\* C11: when the line-item fetch or the order-header fetch of a loadOrders call
\* fails, the call ends there (no further fetch), it leaves the order list as
\* it is, and loading is cleared; nor does a call write the order list
\* between its two fetches, so the list never holds a partial result.
C11_FailedLoadKeepsOrders ==
    [][\A i \in DOMAIN orderLoads :
           /\ (ItemsResult(i, "error") \/ HeadersResult(i, "error"))
                  => /\ orders' = orders
                     /\ Len(orderLoads') = Len(orderLoads) - 1
                     /\ HeaderFetches(orderLoads') <= HeaderFetches(orderLoads)
                     /\ dashMounted => ~loading'
           /\ (ItemsResult(i, "ok") /\ FetchItems(orderLoads[i].rest) # <<>>)
                  => orders' = orders]_vars

\* a loadOrders call failed after an earlier call had filled the list: the
\* list still holds the orders and loading is cleared
C11_Witness ==
    /\ loadOutcome = "failed"
    /\ dashMounted
    /\ myRestaurant # Null
    /\ Len(orders) = 2
    /\ ~loading
    /\ orderLoads = <<>>

(***************************************************************************)
(* Status writes: the dashboard of "u1" once the restaurant is found and   *)
(* the products fetch has answered, the orders fetch still in flight, over *)
(* a store with two orders of one line each, in any status.                *)
(***************************************************************************)
Statuses == {ORDER_STATUSES[k] : k \in DOMAIN ORDER_STATUSES}

InitStatus ==
    /\ dashMounted = TRUE
    /\ user = "u1"
    /\ authReady = TRUE
    /\ owner = OwnerRowOf("u1")
    /\ orders = <<>>
    /\ loading = TRUE
    /\ myRestaurant = RestaurantOf("u1")
    /\ restaurantLoaded = TRUE
    /\ restaurantCheckAttempts = 0
    /\ sessionChecks = <<>>
    /\ runs = <<>>
    /\ orderLoads = <<NewOrderLoad(RestaurantOf("u1"))>>
    /\ productLoads = <<>>
    /\ signOuts = <<>>
    /\ epNotFound = 0
    /\ epRetries = 0
    /\ epRetryLookups = 0
    /\ retryTimer = "none"
    /\ loadOutcome = "none"
    /\ dbOrderItems = <<LineItem("o1", <<1, 1>>, "r1"),
                        LineItem("o2", <<400, 2>>, "r1")>>
    /\ \E s1, s2 \in Statuses :
           dbOrders = <<[Header("o1") EXCEPT !.status = s1],
                        [Header("o2") EXCEPT !.status = s2]>>
    /\ dbFoodItems = FoodItems
    /\ dbOwners = {"u1"}
    /\ dbRestaurants = {"u1"}
    /\ products = FetchProducts(RestaurantOf("u1"))
    /\ InitAuthPage
    /\ InitUi
    /\ InitNoHistory

NextStatus ==
    \/ RefreshOrders
    \/ \E i \in 1..MaxInFlight, res \in FetchResults : ItemsResult(i, res)
    \/ \E i \in 1..MaxInFlight, res \in FetchResults : HeadersResult(i, res)
    \/ \E k \in 1..Cardinality(OrderIds) : MarkAsNext(k)
    \/ \E k \in 1..Cardinality(OrderIds) : CancelOrder(k)
    \/ \E i \in 1..MaxInFlight, res \in FetchResults : StatusWriteResult(i, res)
    \/ Unmount

SpecStatus == InitStatus /\ [][NextStatus]_vars

(***************************************************************************)
(* Properties of the status writes.                                        *)
(***************************************************************************)
\* C12: pressing a status button leaves the order list as it is; when the
\* store acknowledges the write, the list then set holds the written status
\* at the entry with the written order id; when the write fails, the order
\* list is left exactly as it was.
C12_PatchOnAckOnly ==
    [][/\ \A k \in 1..Cardinality(OrderIds) :
              (MarkAsNext(k) \/ CancelOrder(k)) => orders' = orders
       /\ \A i \in DOMAIN statusWrites :
              /\ (StatusWriteResult(i, "ok") /\ dashMounted)
                     => /\ \E k \in DOMAIN orders' :
                               orders'[k].id = statusWrites[i].orderId
                        /\ \A k \in DOMAIN orders' :
                               orders'[k].id = statusWrites[i].orderId
                                   => orders'[k].status = statusWrites[i].newStatus
              /\ StatusWriteResult(i, "error") => orders' = orders]_vars

\* a status write failed after an earlier one had been acknowledged: the list
\* still shows the acknowledged status, and the store holds it
C12_Witness ==
    /\ writeOutcome = "error"
    /\ dashMounted
    /\ statusWrites = <<>>
    /\ \E k \in DOMAIN orders, h \in DOMAIN dbOrders :
           /\ orders[k].id = dbOrders[h].id
           /\ orders[k].status = "Preparing"
           /\ dbOrders[h].status = "Preparing"

\* C13: the status of an order in the store only advances along Pending ->
\* Preparing -> Driver Assigned -> Out for Delivery -> Delivered -> Completed,
\* or goes to Cancelled from Pending or Preparing; it never moves backwards,
\* never skips and never leaves Completed or Cancelled.
C13_StatusOnlyAdvances ==
    [][\A k \in DOMAIN dbOrders :
           \/ dbOrders'[k].status = dbOrders[k].status
           \/ dbOrders'[k].status = GetNextStatus(dbOrders[k].status)
           \/ /\ dbOrders[k].status \in {"Pending", "Preparing"}
              /\ dbOrders'[k].status = "Cancelled"]_vars

\* C24: while the main view of the dashboard is shown, at most one loadOrders
\* call is in flight, and the loading flag is set as long as one is.
C24_OneLoadInFlight ==
    (dashMounted /\ View = "main")
        => /\ Len(orderLoads) <= 1
           /\ orderLoads # <<>> => loading

\* C26: the patch of an acknowledged status write changes the entry of the
\* written order only, in the order list as it is when the acknowledgment
\* arrives: earlier patches and completed reloads are kept.
C26_PatchKeepsOtherEntries ==
    [][\A i \in DOMAIN statusWrites :
           (StatusWriteResult(i, "ok") /\ dashMounted)
               => orders' = Patched(orders, statusWrites[i].orderId,
                                    statusWrites[i].newStatus)]_vars

\* what the dashboard renders (lines 940-1190), by the conditions of the JSX.
\* Before the main view: <Loading />, <OwnerAuthPage /> (which renders its
\* own isLogin, error, successMessage and loading) or the 'No Restaurant
\* Linked' card.  The main view: the header with myRestaurant and the tab
\* buttons with activeTab; under activeTab === 'orders' the filter select and
\* {loading ? <Loading /> : the cards of filteredOrders}; under activeTab ===
\* 'products' the cards of products and, when showProductModal, the
\* ProductSidebar, whose button reads !!editingProduct; when showProfileModal
\* && owner && myRestaurant the ProfileSidebar with owner, the restaurant and
\* isUpdatingProfile.  The text typed into the inputs of the sidebars and the
\* expansion of a card (expandedOrder) are not part of the state of the model.
Rendered ==
    CASE View = "main" ->
           <<"main", myRestaurant, activeTab,
             IF activeTab = "orders"
             THEN <<statusFilter, loading, IF loading THEN <<>> ELSE FilteredOrders>>
             ELSE <<>>,
             IF activeTab = "products"
             THEN <<products, showProductModal,
                    showProductModal /\ editingProduct # <<>> >>
             ELSE <<>>,
             IF showProfileModal /\ owner # Null
             THEN <<owner, isUpdatingProfile>>
             ELSE <<>> >>
      [] View = "auth" -> <<"auth", isLogin, error, successMessage, pageLoading>>
      [] OTHER -> <<View>>

\* C22: a store error is surfaced to the user: when a status write fails,
\* the mounted dashboard renders something it did not render before (an
\* error indication).
C22_ErrorsSurfaced ==
    [][\A i \in DOMAIN statusWrites :
           (StatusWriteResult(i, "error") /\ dashMounted)
               => Rendered' # Rendered]_vars

(***************************************************************************)
(* OwnerAuthPage.handleAuth (lines 101-201).                               *)
(***************************************************************************)
ErrCredentials == "Please fill in both email and password."
ErrRequired == "Your Name, Restaurant Name, Barangay, and Category are required for registration."
ErrAuth == "Authentication failed. Please try again."
ErrOwner == "Failed to create owner profile"
ErrRestaurant == "Failed to register restaurant"
ErrVerify == "Restaurant was created but could not be verified. Please try logging in again."
MsgRegistered == "Success! Restaurant registered. Redirecting..."
MsgCheckEmail == "Account created! Please check your email to confirm before logging in."

\* what the form holds when the button is pressed
Forms == {"noCredentials", "noDetails", "complete"}
InsertResults == {"ok", "error"}
SignUpResults == {"session", "noSession", "error"}

\* everything of the dashboard, the store and the history view
notPage == <<dashVars, storeVars, histVars, uiVars>>
notStore == <<dashVars, histVars, uiVars>>

\* the mode toggle (lines 301-302), disabled={loading}
ToggleLogin ==
    /\ AuthPageShown
    /\ ~pageLoading
    /\ isLogin' = ~isLogin
    /\ error' = ""
    /\ successMessage' = ""
    /\ UNCHANGED <<pageLoading, authCalls, notPage>>

\* the submit button (line 294), disabled={loading}: lines 102-116, and the
\* auth call that handleAuth issues (line 121 or 127).  Nothing but `loading`
\* of the page instance disables the button: a pending timer of line 192 does
\* not, and neither does a call of a former page instance that is still
\* running.  Such calls stay in authCalls; a call that is over is forgotten.
HandleAuth(form, u) ==
    /\ AuthPageShown
    /\ ~pageLoading
    /\ Len(Running(authCalls)) <= MaxFormerCalls
    /\ successMessage' = ""
    /\ LET call == [IdleCall EXCEPT !.isLogin = isLogin, !.live = TRUE,
                                     !.dashLive = TRUE] IN
       IF form = "noCredentials"
       THEN /\ error' = ErrCredentials
            /\ pageLoading' = FALSE
            /\ authCalls' = Append(Running(authCalls), [call EXCEPT !.pc = "done"])
       ELSE IF ~isLogin /\ form = "noDetails"
       THEN /\ error' = ErrRequired
            /\ pageLoading' = FALSE
            /\ authCalls' = Append(Running(authCalls), [call EXCEPT !.pc = "done"])
       ELSE /\ error' = ""
            /\ pageLoading' = TRUE
            /\ authCalls' = Append(Running(authCalls),
                                   [call EXCEPT
                                       !.pc = IF isLogin THEN "signIn" ELSE "signUp",
                                       !.user = u])
    /\ UNCHANGED <<isLogin, notPage>>

\* catch (e) { setError(e.message || ...) } finally { setLoading(false) }
Throw(i, text) ==
    /\ authCalls' = [authCalls EXCEPT ![i].pc = "done", ![i].thrown = text]
    /\ error' = IF authCalls[i].live THEN text ELSE error
    /\ pageLoading' = IF authCalls[i].live THEN FALSE ELSE pageLoading
    /\ UNCHANGED <<isLogin, successMessage, notPage>>

\* onSuccess(u), the setUser of the dashboard instance that rendered the page
\* (line 941), then finally setLoading(false): the commit unmounts the page
\* and runs the provisioning effect for the user object.  freshUser: the
\* object is not the one the dashboard holds already (the one
\* onAuthStateChange delivered); setUser with the object the state holds
\* changes nothing.  The setUser of an instance that is unmounted changes
\* nothing either, whatever instance is mounted by then.
CallOnSuccess(i, u, freshUser) ==
    /\ authCalls[i].dashLive => /\ InFlight < MaxInFlight
                                /\ freshUser \/ user = u
    /\ authCalls' = [(IF authCalls[i].dashLive THEN Dead(authCalls) ELSE authCalls)
                         EXCEPT ![i].pc = "done", ![i].onSuccess = u]
    /\ IF authCalls[i].dashLive
       THEN /\ user' = u
            /\ runs' = RunsAfterCommit(runs, u, restaurantLoaded,
                                       restaurantCheckAttempts, freshUser, FALSE)
            /\ loading' = (loading \/ StartsRun(u, restaurantLoaded,
                                                 restaurantCheckAttempts, freshUser))
            /\ retryTimer' = TimerAfterCommit(retryTimer, u, restaurantLoaded,
                                              restaurantCheckAttempts, freshUser)
            /\ NewPage(isLogin', error', successMessage', pageLoading')
       ELSE UNCHANGED <<user, runs, loading, retryTimer, isLogin, error,
                        successMessage, pageLoading>>
    /\ UNCHANGED <<dashMounted, authReady, owner, orders, myRestaurant,
                   restaurantLoaded, restaurantCheckAttempts, products,
                   sessionChecks, orderLoads, productLoads, signOuts, epNotFound,
                   epRetries, epRetryLookups, loadOutcome, storeVars, histVars, uiVars>>

\* the continuation of signInWithPassword (lines 121-124)
SignInResult(i, res) ==
    /\ i \in DOMAIN authCalls
    /\ authCalls[i].pc = "signIn"
    /\ IF res = "error"
       THEN Throw(i, ErrAuth)
       ELSE /\ authCalls' = [authCalls EXCEPT ![i].pc = "signInWait"]
            /\ UNCHANGED <<isLogin, error, successMessage, pageLoading, notPage>>

\* the 500 ms wait is over (line 125)
SignInWaitDone(i, freshUser) ==
    /\ i \in DOMAIN authCalls
    /\ authCalls[i].pc = "signInWait"
    /\ CallOnSuccess(i, authCalls[i].user, freshUser)

\* a continuation that tests the new user only, not the session
SignUpResultIgnoresSession(i, res) ==
    /\ i \in DOMAIN authCalls
    /\ authCalls[i].pc = "signUp"
    /\ IF res = "error"
       THEN Throw(i, ErrAuth)
       ELSE /\ authCalls' = [authCalls EXCEPT ![i].pc = "ownerInsert",
                                              ![i].ownerInserts = @ + 1]
            /\ UNCHANGED <<isLogin, error, successMessage, pageLoading, notPage>>

\* the continuation of signUp (lines 127-139, 190-193)
SignUpResult(i, res) ==
    /\ i \in DOMAIN authCalls
    /\ authCalls[i].pc = "signUp"
    /\ IF res = "error"
       THEN Throw(i, ErrAuth)
       ELSE IF res = "session"
       THEN \* the owner insert is issued
            /\ authCalls' = [authCalls EXCEPT ![i].pc = "ownerInsert",
                                              ![i].ownerInserts = @ + 1]
            /\ UNCHANGED <<isLogin, error, successMessage, pageLoading, notPage>>
       ELSE \* session === null
            /\ authCalls' = [authCalls EXCEPT ![i].pc = "done",
                                              ![i].switchTimer = "pending"]
            /\ successMessage' = IF authCalls[i].live THEN MsgCheckEmail
                                 ELSE successMessage
            /\ pageLoading' = IF authCalls[i].live THEN FALSE ELSE pageLoading
            /\ UNCHANGED <<isLogin, error, notPage>>

\* setTimeout(() => setIsLogin(true), 3000)
SwitchToLogin(i) ==
    /\ i \in DOMAIN authCalls
    /\ authCalls[i].switchTimer = "pending"
    /\ authCalls' = [authCalls EXCEPT ![i].switchTimer = "fired"]
    /\ isLogin' = IF authCalls[i].live THEN TRUE ELSE isLogin
    /\ UNCHANGED <<error, successMessage, pageLoading, notPage>>

\* the continuation of the owners insert (lines 141-154): let retries = 3 and
\* the first restaurants insert
OwnerInsertResult(i, res) ==
    /\ i \in DOMAIN authCalls
    /\ authCalls[i].pc = "ownerInsert"
    /\ IF res = "error"
       THEN Throw(i, ErrOwner)
       ELSE /\ authCalls' = [authCalls EXCEPT ![i].pc = "restaurantInsert",
                                              ![i].retries = InsertRetries,
                                              ![i].inserts = 1,
                                              ![i].ownerRow = TRUE]
            /\ dbOwners' = dbOwners \cup {authCalls[i].user}
            /\ UNCHANGED <<isLogin, error, successMessage, pageLoading, notStore,
                           dbRestaurants, orderTables>>

\* a mutant of the loop's test: retries > 0 for retries > 1
MayRetryOnceMore(retries) == retries > 0

\* else if (retries > 1)
MayRetry(retries) == retries > 1

\* a continuation that takes the owner row back when the inserts are exhausted
RestaurantInsertResultRollsBack(i, res) ==
    /\ i \in DOMAIN authCalls
    /\ authCalls[i].pc = "restaurantInsert"
    /\ IF res = "ok"
       THEN /\ authCalls' = [authCalls EXCEPT ![i].pc = "verifyWait",
                                              ![i].created = TRUE]
            /\ dbRestaurants' = dbRestaurants \cup {authCalls[i].user}
            /\ UNCHANGED <<isLogin, error, successMessage, pageLoading, notStore,
                           dbOwners, orderTables>>
       ELSE IF MayRetry(authCalls[i].retries)
       THEN /\ authCalls' = [authCalls EXCEPT ![i].pc = "backoff",
                                              ![i].insertFails = @ + 1]
            /\ UNCHANGED <<isLogin, error, successMessage, pageLoading, notPage>>
       ELSE /\ authCalls' = [authCalls EXCEPT ![i].pc = "done",
                                              ![i].thrown = ErrRestaurant,
                                              ![i].insertFails = @ + 1,
                                              ![i].ownerRow = FALSE]
            /\ dbOwners' = dbOwners \ {authCalls[i].user}
            /\ error' = IF authCalls[i].live THEN ErrRestaurant ELSE error
            /\ pageLoading' = IF authCalls[i].live THEN FALSE ELSE pageLoading
            /\ UNCHANGED <<isLogin, successMessage, notStore, dbRestaurants,
                           orderTables>>

\* the continuation of a restaurants insert (lines 165-175)
RestaurantInsertResult(i, res) ==
    /\ i \in DOMAIN authCalls
    /\ authCalls[i].pc = "restaurantInsert"
    /\ IF res = "ok"
       THEN \* restaurantCreated = true; the loop ends; the 1.5 s wait
            /\ authCalls' = [authCalls EXCEPT ![i].pc = "verifyWait",
                                              ![i].created = TRUE]
            /\ dbRestaurants' = dbRestaurants \cup {authCalls[i].user}
            /\ UNCHANGED <<isLogin, error, successMessage, pageLoading, notStore,
                           dbOwners, orderTables>>
       ELSE IF MayRetry(authCalls[i].retries)
       THEN \* the 1 s wait
            /\ authCalls' = [authCalls EXCEPT ![i].pc = "backoff",
                                              ![i].insertFails = @ + 1]
            /\ UNCHANGED <<isLogin, error, successMessage, pageLoading, notPage>>
       ELSE /\ authCalls' = [authCalls EXCEPT ![i].pc = "done",
                                              ![i].thrown = ErrRestaurant,
                                              ![i].insertFails = @ + 1]
            /\ error' = IF authCalls[i].live THEN ErrRestaurant ELSE error
            /\ pageLoading' = IF authCalls[i].live THEN FALSE ELSE pageLoading
            /\ UNCHANGED <<isLogin, successMessage, notPage>>

\* the 1 s wait is over: retries--; while (retries > 0 && !restaurantCreated)
\* issues the next insert, or the loop ends and the 1.5 s wait begins
BackoffDone(i) ==
    /\ i \in DOMAIN authCalls
    /\ authCalls[i].pc = "backoff"
    /\ authCalls' = IF authCalls[i].retries - 1 > 0
                    THEN [authCalls EXCEPT ![i].pc = "restaurantInsert",
                                           ![i].retries = @ - 1,
                                           ![i].backoffs = @ + 1,
                                           ![i].inserts = @ + 1]
                    ELSE [authCalls EXCEPT ![i].pc = "verifyWait",
                                           ![i].retries = @ - 1,
                                           ![i].backoffs = @ + 1]
    /\ UNCHANGED <<isLogin, error, successMessage, pageLoading, notPage>>

\* the 1.5 s wait is over: the read-back is issued (lines 175-180)
VerifyWaitDone(i) ==
    /\ i \in DOMAIN authCalls
    /\ authCalls[i].pc = "verifyWait"
    /\ authCalls' = [authCalls EXCEPT ![i].pc = "verify"]
    /\ UNCHANGED <<isLogin, error, successMessage, pageLoading, notPage>>

\* a mutant of the read-back: its result is not looked at
VerifyResultUnchecked(i, res) ==
    /\ i \in DOMAIN authCalls
    /\ authCalls[i].pc = "verify"
    /\ authCalls' = [authCalls EXCEPT ![i].pc = "redirectWait", ![i].readBack = res]
    /\ successMessage' = IF authCalls[i].live THEN MsgRegistered ELSE successMessage
    /\ UNCHANGED <<isLogin, error, pageLoading, notPage>>

\* the continuation of the read-back (lines 182-187)
VerifyResult(i, res) ==
    /\ i \in DOMAIN authCalls
    /\ authCalls[i].pc = "verify"
    /\ IF res = "row"
       THEN /\ authCalls' = [authCalls EXCEPT ![i].pc = "redirectWait",
                                              ![i].readBack = res]
            /\ successMessage' = IF authCalls[i].live THEN MsgRegistered
                                 ELSE successMessage
            /\ UNCHANGED <<isLogin, error, pageLoading, notPage>>
       ELSE /\ authCalls' = [authCalls EXCEPT ![i].pc = "done",
                                              ![i].thrown = ErrVerify,
                                              ![i].readBack = res]
            /\ error' = IF authCalls[i].live THEN ErrVerify ELSE error
            /\ pageLoading' = IF authCalls[i].live THEN FALSE ELSE pageLoading
            /\ UNCHANGED <<isLogin, successMessage, notPage>>

\* the second 1.5 s wait is over (line 188)
RedirectWaitDone(i, freshUser) ==
    /\ i \in DOMAIN authCalls
    /\ authCalls[i].pc = "redirectWait"
    /\ CallOnSuccess(i, authCalls[i].user, freshUser)

(***************************************************************************)
(* Registration and login: the dashboard from the moment checkAuth found   *)
(* no session and the auth page is shown.  The lookups of the provisioning *)
(* effect stay in flight: they change neither `user` nor `authReady`,      *)
(* which decide whether the page is shown.                                 *)
(***************************************************************************)
InitReg ==
    /\ dashMounted = TRUE
    /\ user = NoUser
    /\ authReady = TRUE
    /\ owner = Null
    /\ orders = <<>>
    /\ loading = TRUE
    /\ myRestaurant = Null
    /\ restaurantLoaded = FALSE
    /\ restaurantCheckAttempts = 0
    /\ products = <<>>
    /\ sessionChecks = <<>>
    /\ runs = <<>>
    /\ orderLoads = <<>>
    /\ productLoads = <<>>
    /\ signOuts = <<>>
    /\ epNotFound = 0
    /\ epRetries = 0
    /\ epRetryLookups = 0
    /\ retryTimer = "none"
    /\ loadOutcome = "none"
    /\ dbOrderItems = <<>>
    /\ dbOrders = <<>>
    /\ dbFoodItems = <<>>
    /\ dbOwners = {}
    /\ dbRestaurants = {}
    /\ InitAuthPage
    /\ InitUi
    /\ InitNoHistory

\* the page has one visitor: every call signs that user in or up, and the
\* sessions that come and go are theirs
Visitors == {"u1"}

NextReg ==
    \/ ToggleLogin
    \/ \E form \in Forms, u \in Visitors : HandleAuth(form, u)
    \/ \E i \in CallIds, res \in InsertResults : SignInResult(i, res)
    \/ \E i \in CallIds, f \in BOOLEAN : SignInWaitDone(i, f)
    \/ \E i \in CallIds, res \in SignUpResults : SignUpResult(i, res)
    \/ \E i \in CallIds : SwitchToLogin(i)
    \/ \E i \in CallIds, res \in InsertResults : OwnerInsertResult(i, res)
    \/ \E i \in CallIds, res \in InsertResults : RestaurantInsertResult(i, res)
    \/ \E i \in CallIds : BackoffDone(i)
    \/ \E i \in CallIds : VerifyWaitDone(i)
    \/ \E i \in CallIds, res \in LookupResults : VerifyResult(i, res)
    \/ \E i \in CallIds, f \in BOOLEAN : RedirectWaitDone(i, f)
    \/ \E s \in Visitors \cup {NoUser}, f \in BOOLEAN : AuthStateChange(s, f)
    \/ Unmount

SpecReg == InitReg /\ [][NextReg]_vars

(***************************************************************************)
(* Properties of the registration.                                         *)
(***************************************************************************)
\* the history of the restaurant inserts of a handleAuth call
InsertHistoryOf(c) ==
    /\ c.inserts <= InsertRetries
    /\ c.inserts >= 1 => c.backoffs = c.inserts - 1
    /\ c.created => c.inserts = c.insertFails + 1
    /\ c.pc \in {"restaurantInsert", "backoff"} => ~c.created
    /\ (c.created /\ c.readBack = "row")
           => /\ c.thrown = ""
              /\ c.pc \in {"redirectWait", "done"}
              /\ c.pc = "done" => c.onSuccess = c.user
              /\ (c.pc = "redirectWait" /\ c.live) => successMessage = MsgRegistered
    /\ c.insertFails = InsertRetries
           => /\ c.pc = "done"
              /\ c.thrown = ErrRestaurant
              /\ c.onSuccess = Null

InsertHistory == \A i \in DOMAIN authCalls : InsertHistoryOf(authCalls[i])

\* C5: a registration issues the restaurant insert at most 3 times, every
\* insert after the first follows a 1-second wait, and no insert follows a
\* success.  After two failures, a success and a read-back that finds the row
\* it shows the success message and then calls onSuccess with the new user;
\* after 3 failures it ends with 'Failed to register restaurant' (shown by the
\* page that issued it, loading cleared) and without a call of onSuccess.
C5_InsertAtMostThrice ==
    /\ []InsertHistory
    /\ [][\A i \in DOMAIN authCalls, res \in InsertResults :
              (/\ RestaurantInsertResult(i, res)
               /\ authCalls[i].live
               /\ authCalls'[i].insertFails = InsertRetries)
                  => (error' = ErrRestaurant /\ ~pageLoading')]_vars

\* the insert failed twice and succeeded on the 3rd attempt, the read-back
\* found the row and onSuccess was called
C5_Witness ==
    /\ authCall.pc = "done"
    /\ authCall.insertFails = 2
    /\ authCall.inserts = 3
    /\ authCall.created
    /\ authCall.readBack = "row"
    /\ authCall.onSuccess = authCall.user
    /\ user = authCall.user

\* the history of the read-back of a handleAuth call
ReadBackHistoryOf(c) ==
    ~c.isLogin =>
        /\ c.onSuccess # Null => c.readBack = "row"
        /\ (c.live /\ c.pc # "done" /\ successMessage = MsgRegistered)
               => c.readBack = "row"
        /\ c.readBack \in {"PGRST116", "error"}
               => /\ c.pc = "done"
                  /\ c.thrown = ErrVerify
                  /\ c.onSuccess = Null

ReadBackHistory == \A i \in DOMAIN authCalls : ReadBackHistoryOf(authCalls[i])

\* C6: a registration shows the success message and calls onSuccess only
\* after its read-back returned a row; a read-back that returns an error or no
\* row ends it with an error (shown by the page that issued it, loading
\* cleared) and without a call of onSuccess.
C6_CompleteOnlyAfterReadBack ==
    /\ []ReadBackHistory
    /\ [][\A i \in DOMAIN authCalls, res \in {"PGRST116", "error"} :
              (VerifyResult(i, res) /\ authCalls[i].live)
                 => (error' = ErrVerify /\ ~pageLoading' /\ successMessage' = "")]_vars

\* the read-back found the row and the page shows the success message, before
\* onSuccess is called
C6_Witness ==
    /\ authCall.pc = "redirectWait"
    /\ authCall.live
    /\ ~authCall.isLogin
    /\ authCall.readBack = "row"
    /\ successMessage = MsgRegistered
    /\ authCall.onSuccess = Null

\* what a call that threw left in the store
ThrownLeavesRows(c) ==
    c.thrown \in {ErrRestaurant, ErrVerify}
        => /\ c.pc = "done"
           /\ c.user \in dbOwners
           /\ c.thrown = ErrVerify => c.user \in dbRestaurants

\* C21: a registration takes nothing back.  No step of a call removes a row
\* of owners or of restaurants; a call that ends with the restaurant inserts
\* exhausted leaves the owner row in the store, one that ends with a failed
\* read-back leaves the owner row and the restaurant row, and the page that
\* issued the call, while it is shown, shows the error with loading cleared.
C21_NoRollback ==
    /\ [](\A i \in DOMAIN authCalls : ThrownLeavesRows(authCalls[i]))
    /\ [][/\ dbOwners \subseteq dbOwners'
          /\ dbRestaurants \subseteq dbRestaurants'
          /\ \A i \in DOMAIN authCalls :
                (/\ authCalls[i].live
                 /\ authCalls[i].pc \in {"restaurantInsert", "verify"}
                 /\ i \in DOMAIN authCalls'
                 /\ authCalls'[i].pc = "done" /\ authCalls'[i].thrown # "")
                    => /\ error' = authCalls'[i].thrown
                       /\ ~pageLoading']_vars

\* the owner insert succeeded, the restaurant insert failed 3 times: the
\* page shows the error and the owner row is in the store without a
\* restaurant row
C21_Witness ==
    /\ authCall.pc = "done"
    /\ authCall.live
    /\ authCall.thrown = ErrRestaurant
    /\ authCall.insertFails = InsertRetries
    /\ authCall.user \in dbOwners
    /\ authCall.user \notin dbRestaurants
    /\ error = ErrRestaurant
    /\ ~pageLoading

\* what a call has done by the time its sign-up has answered
NoSessionHistoryOf(c) ==
    /\ c.switchTimer # "none"
           => (/\ c.pc = "done"
               /\ c.ownerInserts = 0
               /\ c.inserts = 0
               /\ ~c.ownerRow
               /\ ~c.created
               /\ c.onSuccess = Null)
    /\ (c.ownerInserts > 0 \/ c.inserts > 0)
           => (/\ ~c.isLogin
               /\ c.switchTimer = "none")

\* C30: a sign-up that returns no session ends the call: no owner insert and
\* no restaurant insert is issued, onSuccess is not called, and the page that
\* issued the call, while it is shown, shows the 'check your email' message
\* with loading cleared and no error; a call issues an insert only after a
\* sign-up with a session.
C30_NoSessionNoInserts ==
    /\ [](\A i \in DOMAIN authCalls : NoSessionHistoryOf(authCalls[i]))
    /\ [][\A i \in DOMAIN authCalls :
              (SignUpResult(i, "noSession") /\ authCalls[i].live)
                 => /\ successMessage' = MsgCheckEmail
                    /\ ~pageLoading'
                    /\ error' = ""
                    /\ dbOwners' = dbOwners
                    /\ dbRestaurants' = dbRestaurants]_vars

\* the sign-up returned no session: the page shows the message, is not
\* loading, and the call is over without an insert
C30_Witness ==
    /\ authCall.pc = "done"
    /\ authCall.live
    /\ ~authCall.isLogin
    /\ authCall.switchTimer = "pending"
    /\ authCall.ownerInserts = 0
    /\ successMessage = MsgCheckEmail
    /\ ~pageLoading

(***************************************************************************)
(* OrderHistory (lines 1198-1404).  An item is a row of order_items with   *)
(* its nested food_items row and that row's nested restaurants row; a      *)
(* missing nested row is a record with linked = FALSE.                     *)
(***************************************************************************)
\* An image reference is a text, or an object with a text under one of the
\* keys url, path, publicUrl, ...; a text is a sequence of pieces: " " is
\* white space, "https://" and "HTTP://" are schemes the test of line 1250
\* accepts, "data:" starts an inline payload, "/" is a slash, the others are
\* plain.  The empty text stands for every falsy value (null, undefined, '').
Text(t) == [object |-> FALSE, text |-> t]
NoImage == Text(<<>>)
HttpImage == Text(<<"https://", "cdn", "a.png">>)
KeyImage == Text(<<"/", "a.png">>)

\* if (!raw), if (!value): an object is truthy, a text unless it is empty
Truthy(ref) == ref.object \/ ref.text # <<>>

\* String.prototype.trim
RECURSIVE TrimLeft(_)
TrimLeft(t) == IF t # <<>> /\ Head(t) = " " THEN TrimLeft(Tail(t)) ELSE t

RECURSIVE TrimRight(_)
TrimRight(t) ==
    IF t # <<>> /\ t[Len(t)] = " " THEN TrimRight(SubSeq(t, 1, Len(t) - 1)) ELSE t

Trim(t) == TrimRight(TrimLeft(t))

\* /^https?:\/\//i.test(value) || value.startsWith('data:')
IsVerbatim(t) == t # <<>> /\ Head(t) \in {"https://", "HTTP://", "data:"}

\* value.replace(/^\/+/, '')
RECURSIVE StripSlashes(_)
StripSlashes(t) == IF t # <<>> /\ Head(t) = "/" THEN StripSlashes(Tail(t)) ELSE t

\* supabase.storage.from(bucket).getPublicUrl(key).data.publicUrl: the
\* address of the key in the bucket, for every key
GetPublicUrl(bucket, key) == <<"https://", "storage", bucket, "/">> \o key

\* a resolveImage that builds the address of a key out of every reference
ResolveImageNeverVerbatim(raw) ==
    IF ~Truthy(raw) THEN NoImage
    ELSE IF raw.text = <<>> THEN NoImage
    ELSE Text(GetPublicUrl("food-images", StripSlashes(Trim(raw.text))))

\* resolveImage (lines 1243-1264); the first of bucketsToTry yields an
\* address, so the second is never asked
ResolveImage(raw) ==
    IF ~Truthy(raw) THEN NoImage
    ELSE IF raw.text = <<>> THEN NoImage
    ELSE LET value == Trim(raw.text)
         IN IF IsVerbatim(value) THEN Text(value)
            ELSE Text(GetPublicUrl("food-images", StripSlashes(value)))

NoRestaurant == [linked |-> FALSE, name |-> ""]
NoFood == [linked |-> FALSE, restaurant_id |-> Null, image_url |-> NoImage,
           restaurants |-> NoRestaurant]
Food(r, n, img) ==
    [linked |-> TRUE, restaurant_id |-> r, image_url |-> img,
     restaurants |-> [linked |-> TRUE, name |-> n]]

\* price (in eighths) and quantity of a line, as the query returns it: the
\* select list of order_items (lines 1216-1230) names no image_url, so a row
\* has none of its own
HistItem(pq, f) ==
    [name |-> "adobo", price |-> pq[1], quantity |-> pq[2], food_items |-> f,
     image_url |-> NoImage]

\* "r1" and "r3" carry the same display name; "r4" has no name; the food item
\* of "r5" has no linked restaurant; "r6" is named like a property that every
\* object inherits; the names of "r7" and "r8" are integers
HistItems ==
    {HistItem(<<1, 1>>, NoFood),
     HistItem(<<1, 1>>, [Food("r5", "", NoImage) EXCEPT !.restaurants = NoRestaurant]),
     HistItem(<<1, 1>>, Food("r1", "A", KeyImage)),
     HistItem(<<400, 2>>, Food("r1", "A", KeyImage)),
     HistItem(<<400, 2>>, Food("r2", "B", HttpImage)),
     HistItem(<<1, 1>>, Food("r3", "A", NoImage)),
     HistItem(<<1, 1>>, Food("r4", "", NoImage)),
     HistItem(<<1, 1>>, Food("r6", "constructor", NoImage)),
     HistItem(<<1, 1>>, Food("r7", "10", NoImage)),
     HistItem(<<1, 1>>, Food("r8", "2", NoImage))}

HistOrder(id, u, items) ==
    [id |-> id, user_id |-> u, created_at |-> CreatedAt(id), order_items |-> items]

\* .from('orders').select(...).eq('user_id', user.id)
\*     .order('created_at', { ascending: false })
FetchOrders(u) == SortDesc(SelectSeq(histDb, LAMBDA o : o.user_id = u))

\* const raw = item.food_items?.image_url || item.image_url || null;
RawImage(item) ==
    IF item.food_items.linked /\ Truthy(item.food_items.image_url)
    THEN item.food_items.image_url
    ELSE item.image_url

\* return { ...item, image_url: await resolveImage(raw) }
Enriched(item) == [item EXCEPT !.image_url = ResolveImage(RawImage(item))]

\* item.food_items?.restaurants?.name  ("" stands for every falsy value)
RestaurantKey(item) ==
    IF item.food_items.linked /\ item.food_items.restaurants.linked
    THEN item.food_items.restaurants.name
    ELSE ""

\* the property names a plain object inherits from Object.prototype: for
\* these acc[restaurantId] is truthy on the empty object {} (line 1279)
ObjectPrototypeNames ==
    {"constructor", "hasOwnProperty", "isPrototypeOf", "propertyIsEnumerable",
     "toLocaleString", "toString", "valueOf", "__proto__", "__defineGetter__",
     "__defineSetter__", "__lookupGetter__", "__lookupSetter__"}

\* the integer a restaurant name spells when it is a canonical array index
\* ("2", "10"), and -1 for the other names of the model
ArrayIndex(name) ==
    CASE name = "0" -> 0
      [] name = "1" -> 1
      [] name = "2" -> 2
      [] name = "10" -> 10
      [] OTHER -> -1

\* const restaurantGroups = enrichedItems.reduce(..., {}): the accumulator is
\* a plain object; values lists its groups in the order of Object.values, and
\* threw tells that the callback has thrown
NoGroups == [threw |-> FALSE, values |-> <<>>]

\* acc[restaurantId] = {...} on a key the object does not hold yet: Object.values
\* (line 1293) lists the integer keys first, ascending, then the other keys in
\* the order they were added
WithGroup(values, group) ==
    IF ArrayIndex(group.key) < 0 THEN Append(values, group)
    ELSE LET n == Cardinality({k \in DOMAIN values :
                                  /\ ArrayIndex(values[k].key) >= 0
                                  /\ ArrayIndex(values[k].key) < ArrayIndex(group.key)})
         IN SubSeq(values, 1, n) \o <<group>> \o SubSeq(values, n + 1, Len(values))

\* the reducer without its test of the restaurant name
AddToGroupKeepsUnnamed(acc, item) ==
    LET key == RestaurantKey(item)
        itemTotal == item.price * item.quantity
    IN IF acc.threw THEN acc
       ELSE IF key \in ObjectPrototypeNames THEN [acc EXCEPT !.threw = TRUE]
       ELSE IF \E k \in DOMAIN acc.values : acc.values[k].key = key
       THEN LET k == CHOOSE k \in DOMAIN acc.values : acc.values[k].key = key
            IN [acc EXCEPT !.values[k].items = Append(@, item),
                           !.values[k].subtotal = @ + itemTotal]
       ELSE [acc EXCEPT !.values =
                WithGroup(@, [key |-> key, restaurantName |-> key,
                              restaurantId |-> item.food_items.restaurant_id,
                              items |-> <<item>>, subtotal |-> itemTotal])]

\* the reducer of restaurantGroups (lines 1275-1291).  An item without a
\* restaurant name is skipped (line 1278).  For a name that Object.prototype
\* defines, !acc[restaurantId] is false although no group was stored, so the
\* group is not created and acc[restaurantId].items.push (line 1288) throws a
\* TypeError: items is undefined
AddToGroup(acc, item) ==
    LET key == RestaurantKey(item)
        itemTotal == item.price * item.quantity
    IN IF acc.threw \/ key = "" THEN acc
       ELSE IF key \in ObjectPrototypeNames THEN [acc EXCEPT !.threw = TRUE]
       ELSE IF \E k \in DOMAIN acc.values : acc.values[k].key = key
       THEN LET k == CHOOSE k \in DOMAIN acc.values : acc.values[k].key = key
            IN [acc EXCEPT !.values[k].items = Append(@, item),
                           !.values[k].subtotal = @ + itemTotal]
       ELSE [acc EXCEPT !.values =
                WithGroup(@, [key |-> key, restaurantName |-> key,
                              restaurantId |-> item.food_items.restaurant_id,
                              items |-> <<item>>, subtotal |-> itemTotal])]

\* enrichedItems.reduce(..., {})
RECURSIVE RestaurantGroups(_)
RestaurantGroups(items) ==
    IF items = <<>> THEN NoGroups
    ELSE AddToGroup(RestaurantGroups(SubSeq(items, 1, Len(items) - 1)),
                    items[Len(items)])

\* order.order_items.map(...) of line 1268
EnrichedItems(order) ==
    [k \in DOMAIN order.order_items |-> Enriched(order.order_items[k])]

\* restaurantOrderSegments (lines 1293-1301), without the formatted date
RestaurantOrderSegments(order) ==
    LET groups == RestaurantGroups(EnrichedItems(order)).values
    IN [k \in DOMAIN groups |->
           [id |-> order.id, user_id |-> order.user_id,
            created_at |-> order.created_at,
            displayId |-> <<order.id, groups[k].restaurantId>>,
            restaurantName |-> groups[k].restaurantName,
            order_items |-> groups[k].items,
            total |-> groups[k].subtotal,
            isSegment |-> TRUE]]

\* (await Promise.all(fetchedOrders.map(...))).flat()
RECURSIVE GroupedDisplayOrders(_)
GroupedDisplayOrders(fetchedOrders) ==
    IF fetchedOrders = <<>> THEN <<>>
    ELSE RestaurantOrderSegments(Head(fetchedOrders))
         \o GroupedDisplayOrders(Tail(fetchedOrders))

\* the callback of fetchedOrders.map throws for one of the orders: Promise.all
\* rejects, and so does the await of line 1266
Rejects(fetchedOrders) ==
    \E k \in DOMAIN fetchedOrders :
        RestaurantGroups(EnrichedItems(fetchedOrders[k])).threw

notHistory == <<dashVars, storeVars, regVars, uiVars>>

\* the prop `user` changes: fetchOrders is a useCallback over [user], so the
\* effect (lines 1312-1314) calls it for every new user object, also one of
\* the same user (freshUser)
HistUserChange(u, freshUser) ==
    /\ histMounted
    /\ u # histUser \/ (freshUser /\ u # NoUser)
    /\ Len(histFetches) < MaxInFlight
    /\ histUser' = u
    /\ IF u = NoUser
       THEN \* setLoading(false); return;
            /\ histLoading' = FALSE
            /\ UNCHANGED histFetches
       ELSE /\ histLoading' = TRUE
            /\ histFetches' = Append(histFetches, [user |-> u])
    /\ UNCHANGED <<histMounted, groupedOrders, histDb, notHistory>>

\* the outcomes of the awaited orders query of fetchOrders: rows, an error
\* object, or a rejection of the awaited promise
HistFetchResults == {"ok", "error", "throws"}

\* the continuation of the orders fetch of fetchOrders (lines 1235-1309); the
\* function has no try block: when the awaited query rejects, or the
\* processing of the rows throws, the function ends there and neither
\* setGroupedOrders nor setLoading(false) runs
FetchOrdersResult(i, res) ==
    /\ i \in DOMAIN histFetches
    /\ histFetches' = RemoveAt(histFetches, i)
    /\ LET fetchedOrders == FetchOrders(histFetches[i].user)
           thrown == res = "throws" \/ (res = "ok" /\ Rejects(fetchedOrders))
       IN IF histMounted /\ ~thrown
          THEN /\ groupedOrders' = IF res = "error" THEN <<>>
                                   ELSE GroupedDisplayOrders(fetchedOrders)
               /\ histLoading' = FALSE
          ELSE UNCHANGED <<groupedOrders, histLoading>>
    /\ UNCHANGED <<histMounted, histUser, histDb, notHistory>>

\* the history view is torn down
HistUnmount ==
    /\ histMounted
    /\ histMounted' = FALSE
    /\ UNCHANGED <<histUser, groupedOrders, histLoading, histFetches, histDb,
                   notHistory>>

(***************************************************************************)
(* The order history from its mount for "u1" on: order "o2" of "u1" holds  *)
(* the drawn items; the older order "o1" is one of "u1" or of "u2".        *)
(***************************************************************************)
OlderItems == <<HistItem(<<400, 2>>, Food("r2", "B", HttpImage))>>

InitHist ==
    /\ InitDashboard
    /\ dbOrderItems = <<>>
    /\ dbOrders = <<>>
    /\ dbFoodItems = <<>>
    /\ dbOwners = {}
    /\ dbRestaurants = {}
    /\ InitAuthPage
    /\ InitUi
    /\ histMounted = TRUE
    /\ histUser = "u1"
    /\ groupedOrders = <<>>
    /\ histLoading = TRUE
    /\ histFetches = <<[user |-> "u1"]>>
    /\ \E items \in SeqsUpTo(HistItems, MaxHistItems), u \in Users :
           histDb = <<HistOrder("o1", u, OlderItems), HistOrder("o2", "u1", items)>>

NextHist ==
    \/ \E u \in Sessions, f \in BOOLEAN : HistUserChange(u, f)
    \/ \E i \in 1..MaxInFlight, res \in HistFetchResults : FetchOrdersResult(i, res)
    \/ HistUnmount

SpecHist == InitHist /\ [][NextHist]_vars

\* every awaited store call completes: the continuation of a fetch in flight
\* is eventually run
HistFetchStep == \E i \in 1..MaxInFlight, res \in HistFetchResults : FetchOrdersResult(i, res)

SpecHistLive == SpecHist /\ WF_vars(HistFetchStep)

\* the segmentation alone: the fetch issued at the mount returns, for every
\* drawn store, and the view may be torn down before or after
NextSegments ==
    \/ \E i \in 1..MaxInFlight, res \in HistFetchResults : FetchOrdersResult(i, res)
    \/ HistUnmount

SpecSegments == InitHist /\ [][NextSegments]_vars

(***************************************************************************)
(* Properties of the segmentation.                                         *)
(***************************************************************************)
\* what the view shows of order o
SegmentsOf(o) == SelectSeq(groupedOrders, LAMBDA g : g.id = o.id)

\* the items of o whose restaurant can be determined
Resolvable(o) == SelectSeq(o.order_items, LAMBDA i : RestaurantKey(i) # "")

RECURSIVE SumOfTotals(_)
SumOfTotals(segs) ==
    IF segs = <<>> THEN 0 ELSE Head(segs).total + SumOfTotals(Tail(segs))

\* C3: for every displayed order whose items are sold by n >= 1 distinct
\* restaurants there are exactly n segments, each holds items of its own
\* restaurant only, and the segments' subtotals sum to the sum of price x
\* quantity over the order's items with a resolvable restaurant; also when two
\* restaurants carry the same display name.
C3_OneSegmentPerRestaurant ==
    \A k \in DOMAIN histDb :
        LET o == histDb[k]
            segs == SegmentsOf(o)
            sellers == {Resolvable(o)[j].food_items.restaurant_id :
                           j \in DOMAIN Resolvable(o)}
        IN segs # <<>> =>
               /\ Len(segs) = Cardinality(sellers)
               /\ \A s \in DOMAIN segs : \A j \in DOMAIN segs[s].order_items :
                      segs[s].order_items[j].food_items.restaurant_id
                          = segs[s].displayId[2]
               /\ SumOfTotals(segs) = SumOfLines(Resolvable(o))

\* an item as the store holds it
Line(item) == [item EXCEPT !.image_url = NoImage]

RECURSIVE ItemsOfSegments(_)
ItemsOfSegments(segs) ==
    IF segs = <<>> THEN <<>>
    ELSE Head(segs).order_items \o ItemsOfSegments(Tail(segs))

\* how often x occurs in the sequence
Count(x, seq) == Cardinality({j \in DOMAIN seq : Line(seq[j]) = Line(x)})

\* C4, read in favour of the claim (an item without a determinable restaurant
\* may be left out): in every displayed order, each item with a determinable
\* restaurant occurs in the segments as often as in the order, and the items
\* of one segment are sold by one restaurant (the segments partition the
\* items by restaurant).
C4_SegmentsPartitionByRestaurant ==
    \A k \in DOMAIN histDb :
        LET o == histDb[k]
            segs == SegmentsOf(o)
        IN segs # <<>> =>
               /\ \A j \in DOMAIN Resolvable(o) :
                      Count(Resolvable(o)[j], ItemsOfSegments(segs))
                          = Count(Resolvable(o)[j], o.order_items)
               /\ \A s \in DOMAIN segs : \A i, j \in DOMAIN segs[s].order_items :
                      segs[s].order_items[i].food_items.restaurant_id
                          = segs[s].order_items[j].food_items.restaurant_id

\* the fetched orders without the items whose restaurant cannot be determined
\* and without the orders that hold no other item
Purged(fetched) ==
    LET kept == SelectSeq(fetched, LAMBDA o : Resolvable(o) # <<>>)
    IN [k \in DOMAIN kept |-> [kept[k] EXCEPT !.order_items = Resolvable(kept[k])]]

\* C17: when the rows of a fetch of the order history arrive, the items
\* without a determinable restaurant change nothing and raise no error: the
\* view ends as it does for the same orders with those items, and the orders
\* made of them only, taken away.  Orders made of such items only leave the
\* view without loading and without a segment; whenever the view leaves
\* loading, no segment holds such an item and no segment belongs to an order
\* made of such items only.
C17_UnresolvableItemsDropped ==
    [][\A i \in DOMAIN histFetches :
           (FetchOrdersResult(i, "ok") /\ histMounted)
               => LET fetched == FetchOrders(histFetches[i].user)
                  IN /\ (\A k \in DOMAIN fetched : Resolvable(fetched[k]) = <<>>)
                            => ~histLoading' /\ groupedOrders' = <<>>
                     /\ IF Rejects(Purged(fetched))
                        THEN UNCHANGED <<groupedOrders, histLoading>>
                        ELSE /\ ~histLoading'
                             /\ groupedOrders' = GroupedDisplayOrders(Purged(fetched))
                             /\ \A s \in DOMAIN groupedOrders' :
                                    \A j \in DOMAIN groupedOrders'[s].order_items :
                                        RestaurantKey(groupedOrders'[s].order_items[j]) # ""
                             /\ \A k \in DOMAIN fetched :
                                    Resolvable(fetched[k]) = <<>>
                                        => \A s \in DOMAIN groupedOrders' :
                                               groupedOrders'[s].id # fetched[k].id]_vars

\* the newer order holds two items, none with a determinable restaurant; the
\* view shows the segment of the older order only
C17_Witness ==
    /\ histMounted
    /\ ~histLoading
    /\ histUser = "u1"
    /\ histDb[1].user_id = "u1"
    /\ Len(histDb[2].order_items) = 2
    /\ Resolvable(histDb[2]) = <<>>
    /\ histDb[2].order_items[1] # histDb[2].order_items[2]
    /\ Len(groupedOrders) = 1
    /\ groupedOrders[1].id = histDb[1].id

(***************************************************************************)
(* Image resolution: the order history from its mount for "u1" on, over    *)
(* one order of one item whose food item carries any image reference.      *)
(***************************************************************************)
Pieces == {" ", "https://", "HTTP://", "data:", "/", "a.png"}

Refs == {[object |-> b, text |-> t] : b \in BOOLEAN, t \in SeqsUpTo(Pieces, MaxRefLen)}

InitImage ==
    /\ InitDashboard
    /\ dbOrderItems = <<>>
    /\ dbOrders = <<>>
    /\ dbFoodItems = <<>>
    /\ dbOwners = {}
    /\ dbRestaurants = {}
    /\ InitAuthPage
    /\ InitUi
    /\ histMounted = TRUE
    /\ histUser = "u1"
    /\ groupedOrders = <<>>
    /\ histLoading = TRUE
    /\ histFetches = <<[user |-> "u1"]>>
    /\ \E ofFood \in Refs :
           histDb = <<HistOrder("o1", "u1",
                         <<HistItem(<<1, 1>>, Food("r1", "A", ofFood))>>)>>

NextImage ==
    \/ \E u \in Sessions, f \in BOOLEAN : HistUserChange(u, f)
    \/ \E i \in 1..MaxInFlight, res \in HistFetchResults : FetchOrdersResult(i, res)
    \/ HistUnmount

SpecImage == InitImage /\ [][NextImage]_vars

\* the reference is a text without surrounding white space that starts with
\* http://, https:// (in any case) or data:
FullyQualified(ref) ==
    /\ ~ref.object
    /\ IsVerbatim(ref.text)
    /\ ref.text[Len(ref.text)] # " "

\* C18: for every stored item, resolving the result of resolving its image
\* reference yields that result again; a reference that is a fully-qualified
\* http/https address or a data: payload resolves to itself; an absent
\* reference resolves to 'no image'.  Every displayed item carries the
\* resolution of the reference of its stored item (the same on every fetch),
\* and resolving what is displayed changes nothing.
C18_ImageResolutionIdempotent ==
    /\ \A k \in DOMAIN histDb : \A j \in DOMAIN histDb[k].order_items :
           LET raw == RawImage(histDb[k].order_items[j])
               once == ResolveImage(raw)
           IN /\ ~once.object
              /\ ResolveImage(once) = once
              /\ FullyQualified(raw) => once = raw
              /\ ~Truthy(raw) => once = NoImage
    /\ \A s \in DOMAIN groupedOrders : \A j \in DOMAIN groupedOrders[s].order_items :
           LET shown == groupedOrders[s].order_items[j]
           IN /\ ResolveImage(shown.image_url) = shown.image_url
              /\ \E k \in DOMAIN histDb : \E i \in DOMAIN histDb[k].order_items :
                     /\ histDb[k].id = groupedOrders[s].id
                     /\ Line(histDb[k].order_items[i]) = Line(shown)
                     /\ shown.image_url = ResolveImage(RawImage(histDb[k].order_items[i]))

\* the view shows the address built from a storage key that was stored with
\* white space and a leading slash
C18_Witness ==
    /\ histMounted
    /\ ~histLoading
    /\ Len(groupedOrders) = 1
    /\ histDb[1].order_items[1].food_items.image_url = Text(<<" ", "/", "a.png">>)
    /\ groupedOrders[1].order_items[1].image_url
           = Text(GetPublicUrl("food-images", <<"a.png">>))

(***************************************************************************)
(* C19: loading always resolves: once the order history shows its loading  *)
(* screen for a fetch, the loading flag is eventually cleared (or the view *)
(* is gone), whether the fetch returns rows, an error, or throws.          *)
(***************************************************************************)
C19_LoadingResolves ==
    (histMounted /\ histLoading) ~> (~histLoading \/ ~histMounted)

(***************************************************************************)
(* The status filter and its persistence: the dashboard is opened over     *)
(* whatever the browser holds under STATUS_FILTER_KEY, closed, and opened  *)
(* again.                                                                  *)
(***************************************************************************)
\* the options of the filter select: 'all' and every order status
FilterValues == {"all"} \cup Statuses

\* what localStorage may hold under the key before the dashboard is first
\* opened: no item, the empty string, or a value written by an earlier mount
StoredItems == {Null, ""} \cup FilterValues

\* localStorage.getItem(STATUS_FILTER_KEY) || 'all'
InitialFilter(item) == IF item = Null \/ item = "" THEN "all" ELSE item

\* localStorage.setItem(STATUS_FILTER_KEY, statusFilter): the item is the
\* string of the value
SetItem(value) == value

\* an onChange that leaves the stored item alone
SetStatusFilterUnsaved(v) ==
    /\ View = "main"
    /\ activeTab = "orders"
    /\ statusFilter' = v
    /\ filterPicked' = v
    /\ UNCHANGED <<savedFilter, dashVars, storeVars, regVars, histVars, statusWrites,
                   writeOutcome, writesIssued, manageVars>>

\* the filter select of the orders tab: onChange={(e) => setStatusFilter(...)};
\* when the value changed, the effect of lines 609-613 stores it
SetStatusFilter(v) ==
    /\ View = "main"
    /\ activeTab = "orders"
    /\ statusFilter' = v
    /\ savedFilter' = IF v # statusFilter THEN SetItem(v) ELSE savedFilter
    /\ filterPicked' = v
    /\ UNCHANGED <<dashVars, storeVars, regVars, histVars, statusWrites,
                   writeOutcome, writesIssued, manageVars>>

\* a new instance of the dashboard is mounted: every useState takes its
\* initial value (lines 565-594), statusFilter the stored one, checkAuth() is
\* issued and the effect of lines 609-613 stores the filter.  The calls of the
\* former instance stay in flight: its runs are cleaned up and its loads and
\* writes, its getSession, signOut and handleProfileUpdate calls are not
\* live, so their continuations write nothing to this instance.
Mount ==
    /\ ~dashMounted
    /\ Len(sessionChecks) < MaxInFlight
    /\ dashMounted' = TRUE
    /\ user' = NoUser
    /\ authReady' = FALSE
    /\ owner' = Null
    /\ orders' = <<>>
    /\ loading' = TRUE
    /\ myRestaurant' = Null
    /\ restaurantLoaded' = FALSE
    /\ restaurantCheckAttempts' = 0
    /\ products' = <<>>
    /\ isUpdatingProfile' = FALSE
    /\ activeTab' = "orders"
    /\ showProductModal' = FALSE
    /\ showProfileModal' = FALSE
    /\ editingProduct' = <<>>
    /\ sessionChecks' = Append(sessionChecks, NewCall)
    /\ epNotFound' = 0
    /\ epRetries' = 0
    /\ epRetryLookups' = 0
    /\ retryTimer' = "none"
    /\ loadOutcome' = "none"
    /\ statusFilter' = InitialFilter(savedFilter)
    /\ savedFilter' = SetItem(InitialFilter(savedFilter))
    /\ UNCHANGED <<runs, orderLoads, productLoads, statusWrites, productWrites,
                   signOuts, profileCalls, dateNow, filterPicked, writeOutcome,
                   writesIssued, storeVars, histVars>>
    /\ PageAfterCommit

\* the dashboard was never opened; the browser holds any of the items
InitFilter ==
    /\ dashMounted = FALSE
    /\ user = NoUser
    /\ authReady = FALSE
    /\ owner = Null
    /\ orders = <<>>
    /\ loading = TRUE
    /\ myRestaurant = Null
    /\ restaurantLoaded = FALSE
    /\ restaurantCheckAttempts = 0
    /\ products = <<>>
    /\ sessionChecks = <<>>
    /\ runs = <<>>
    /\ orderLoads = <<>>
    /\ productLoads = <<>>
    /\ signOuts = <<>>
    /\ epNotFound = 0
    /\ epRetries = 0
    /\ epRetryLookups = 0
    /\ retryTimer = "none"
    /\ loadOutcome = "none"
    /\ dbOrderItems = <<>>
    /\ dbOrders = <<>>
    /\ dbFoodItems = <<>>
    /\ dbOwners = {}
    /\ dbRestaurants = {}
    /\ InitAuthPage
    /\ InitNoHistory
    /\ statusWrites = <<>>
    /\ writeOutcome = "none"
    /\ writesIssued = 0
    /\ InitManage
    /\ statusFilter = "all"
    /\ savedFilter \in StoredItems
    /\ filterPicked = Null

\* the browser holds the session of one visitor or none
NextFilter ==
    \/ Mount
    \/ \E i \in 1..MaxInFlight, s \in Visitors \cup {NoUser}, f \in BOOLEAN :
           CheckAuthResult(i, s, f)
    \/ \E i \in 1..MaxInFlight, res \in LookupResults : OwnerResult(i, res)
    \/ \E i \in 1..MaxInFlight, res \in LookupResults : RestaurantResult(i, res)
    \/ \E i \in 1..MaxInFlight, res \in FetchResults : ItemsResult(i, res)
    \/ \E i \in 1..MaxInFlight, res \in FetchResults : ProductsResult(i, res)
    \/ \E v \in FilterValues : SetStatusFilter(v)
    \/ Unmount

SpecFilter == InitFilter /\ [][NextFilter]_vars

\* C20: picking an option of the filter select stores that value under the
\* storage key; nothing but the select and a mount writes the item; a mount
\* starts with the stored value as its filter, and with 'all' when no item
\* is stored; so a mounted dashboard shows the option last picked, also
\* after it was closed and opened again.
C20_FilterRoundTrip ==
    /\ [](dashMounted => /\ savedFilter = statusFilter
                         /\ filterPicked # Null => statusFilter = filterPicked)
    /\ [][/\ \A v \in FilterValues : SetStatusFilter(v) => savedFilter' = v
          /\ Mount => /\ savedFilter \in FilterValues => statusFilter' = savedFilter
                      /\ savedFilter = Null => statusFilter' = "all"
          /\ ~Mount /\ ~(\E v \in FilterValues : SetStatusFilter(v))
                 => savedFilter' = savedFilter]_vars

\* a dashboard opened again after 'Preparing' was picked in the one before:
\* its filter is 'Preparing' before its session check has returned
C20_Witness ==
    /\ dashMounted
    /\ sessionChecks = <<NewCall>>
    /\ filterPicked = "Preparing"
    /\ statusFilter = "Preparing"
    /\ savedFilter = "Preparing"

(***************************************************************************)
(* C28: whenever the order history is shown and not loading, every segment *)
(* it displays belongs to an order of the current user; with no user it    *)
(* displays no segment.                                                    *)
(***************************************************************************)
C28_OnlyCurrentUsersSegments ==
    (histMounted /\ ~histLoading)
        => \A s \in DOMAIN groupedOrders : groupedOrders[s].user_id = histUser

(***************************************************************************)
(* Registration with the dashboard polling: the auth page is shown, a      *)
(* registration is submitted, the session that sign-up creates reaches the *)
(* dashboard's onAuthStateChange listener, and the provisioning lookups    *)
(* run while handleAuth inserts the rows.  A lookup finds a row as soon as *)
(* the insert of that row has succeeded.                                   *)
(***************************************************************************)
\* .from('owners').select('*').eq('id', user.id).single()
OwnerLookup(u) ==
    IF u \in dbOwners THEN "row" ELSE "PGRST116"

\* .from('restaurants').select('*').eq('owner_id', user.id).single()
RestaurantLookup(u) ==
    IF u \in dbRestaurants THEN "row" ELSE "PGRST116"

\* onAuthStateChange delivers the session of the sign-up of the call
SignedIn ==
    /\ ~authCall.isLogin
    /\ authCall.pc \notin {"idle", "signUp", "done"}
    /\ user = NoUser
    /\ AuthStateChange(authCall.user, TRUE)

\* the continuations of the awaits of handleAuth
HandleAuthStep ==
    \/ \E i \in CallIds, res \in InsertResults : SignInResult(i, res)
    \/ \E i \in CallIds, f \in BOOLEAN : SignInWaitDone(i, f)
    \/ \E i \in CallIds, res \in SignUpResults : SignUpResult(i, res)
    \/ \E i \in CallIds, res \in InsertResults : OwnerInsertResult(i, res)
    \/ \E i \in CallIds, res \in InsertResults : RestaurantInsertResult(i, res)
    \/ \E i \in CallIds : BackoffDone(i)
    \/ \E i \in CallIds : VerifyWaitDone(i)
    \/ \E i \in DOMAIN authCalls :
           VerifyResult(i, RestaurantLookup(authCalls[i].user))
    \/ \E i \in CallIds : VerifyResult(i, "error")
    \/ \E i \in CallIds, f \in BOOLEAN : RedirectWaitDone(i, f)

\* the continuations of the lookups of loadMyData: the store answers from
\* its tables, or with another error
LookupStep ==
    \/ \E i \in 1..MaxInFlight : OwnerResult(i, OwnerLookup(runs[i].user))
    \/ \E i \in 1..MaxInFlight : OwnerResult(i, "error")
    \/ \E i \in 1..MaxInFlight : RestaurantResult(i, RestaurantLookup(runs[i].user))
    \/ \E i \in 1..MaxInFlight : RestaurantResult(i, "error")

\* the continuations of the fetches of loadOrders and loadProducts
LoadStep ==
    \/ \E i \in 1..MaxInFlight, res \in FetchResults : ItemsResult(i, res)
    \/ \E i \in 1..MaxInFlight, res \in FetchResults : HeadersResult(i, res)
    \/ \E i \in 1..MaxInFlight, res \in FetchResults : ProductsResult(i, res)

\* the same over the store of InitReg, which holds no order: the items fetch
\* of a restaurant registered a moment ago finds no row, so loadOrders ends
\* at line 679 and its second await is never reached
FirstLoadStep ==
    \/ \E i \in 1..MaxInFlight, res \in FetchResults : ItemsResult(i, res)
    \/ \E i \in 1..MaxInFlight, res \in FetchResults : ProductsResult(i, res)

NextOnboard ==
    \/ ToggleLogin
    \/ \E form \in Forms, u \in Users : HandleAuth(form, u)
    \/ \E i \in CallIds : SwitchToLogin(i)
    \/ SignedIn
    \/ HandleAuthStep
    \/ LookupStep
    \/ FirstLoadStep

\* every awaited call returns and every timer fires
SpecOnboard ==
    /\ InitReg
    /\ [][NextOnboard]_vars
    /\ WF_vars(HandleAuthStep)
    /\ WF_vars(LookupStep)
    /\ WF_vars(FirstLoadStep)
    /\ WF_vars(SignedIn)

\* the checking episode ended before the retries were used up: a lookup was
\* answered with a store error other than "no row"
EndedOnStoreError ==
    restaurantLoaded /\ myRestaurant = Null /\ epNotFound <= MaxCheckAttempts

\* C25: once a registration has called onSuccess (its restaurant row is in
\* the store and was read back), the dashboard of that user eventually holds
\* the restaurant, unless the store has answered a lookup with an error.
C25_RegistrationEndsFound ==
    (/\ ~authCall.isLogin
     /\ authCall.onSuccess # Null
     /\ authCall.created
     /\ user = authCall.user)
        ~> (myRestaurant = RestaurantOf(authCall.user) \/ EndedOnStoreError)

(***************************************************************************)
(* Product and profile management: handleProductSubmit (lines 731-765),    *)
(* handleDeleteProduct (lines 767-778), handleProfileUpdate (lines         *)
(* 862-909).                                                               *)
(***************************************************************************)
\* most rows of food_items
MaxProducts == 2
\* product saves and deletes that may be in flight at once
MaxProductWrites == 1

\* the text of an input: '' or something typed; a number input holds text too
Texts == {"", "0"}
\* product names by their rank in the alphabet; 0 stands for ''
ProductNames == 0..2

ProductForms == [name : ProductNames, price : Texts, stock : Texts]

\* if (!productForm.name || !productForm.price || !productForm.stock)
ProductFormRejected(f) == f.name = 0 \/ f.price = "" \/ f.stock = ""

\* the ownerForm and restaurantForm of ProfileSidebar, the required fields
ProfileForms ==
    [contact_name : {"", "a"}, name : {"", "a"}, address_barangay : {"", "a"},
     category_id : {"", "a"}]

\* if (!ownerForm.contact_name || !restaurantForm.name ||
\*     !restaurantForm.address_barangay || !restaurantForm.category_id)
ProfileFormRejected(f) ==
    f.contact_name = "" \/ f.name = "" \/ f.address_barangay = ""
        \/ f.category_id = ""

\* the fields of the auth page that handleAuth tests
AuthForms ==
    [email : {"", "a"}, password : {"", "a"}, ownerName : {"", "a"},
     restaurantName : {"", "a"}, addressBarangay : {"", "a"},
     restaurantCategoryId : {"", "a"}]

\* if (!email || !password) ... if (!isLogin && (!ownerName || ...))
FormKind(f) ==
    IF f.email = "" \/ f.password = "" THEN "noCredentials"
    ELSE IF f.ownerName = "" \/ f.restaurantName = "" \/ f.addressBarangay = ""
            \/ f.restaurantCategoryId = ""
         THEN "noDetails"
    ELSE "complete"

\* everything the management handlers leave alone
notManage ==
    <<dashMounted, user, authReady, orders, restaurantLoaded,
      restaurantCheckAttempts, products, sessionChecks, runs, signOuts, ghostVars,
      dbOrderItems, dbOrders, dbOwners, dbRestaurants, regVars, histVars,
      statusWrites, filterVars,
      writeOutcome, writesIssued>>

\* most Add Product saves that issue an insert
MaxAdds == 1

\* what the handlers of the tabs and the sidebars leave alone
notSidebar ==
    <<notManage, owner, loading, myRestaurant, orderLoads, productLoads,
      dbFoodItems, isUpdatingProfile, profileCalls, productWrites, dateNow>>

\* the tab buttons (lines 989-992): onClick={() => setActiveTab(...)}
SetActiveTab(tab) ==
    /\ View = "main"
    /\ activeTab' = tab
    /\ UNCHANGED <<notSidebar, showProductModal, showProfileModal, editingProduct>>

\* {activeTab === 'products' && ...} (line 1099)
ProductsTabShown == View = "main" /\ activeTab = "products"

\* {showProductModal && <ProductSidebar ... />} (lines 1158-1166)
ProductSidebarShown == ProductsTabShown /\ showProductModal

\* the button '+ Add Product' (lines 1104-1106): setEditingProduct(null);
\* setProductForm({...}); setShowProductModal(true)
OpenAddProduct ==
    /\ ProductsTabShown
    /\ editingProduct' = <<>>
    /\ showProductModal' = TRUE
    /\ UNCHANGED <<notSidebar, activeTab, showProfileModal>>

\* openEditProduct(product) (lines 780-790), the Edit buttons of card k
OpenEditProduct(k) ==
    /\ ProductsTabShown
    /\ k \in DOMAIN products
    /\ editingProduct' = <<products[k]>>
    /\ showProductModal' = TRUE
    /\ UNCHANGED <<notSidebar, activeTab, showProfileModal>>

\* {showProfileModal && owner && myRestaurant && <ProfileSidebar ... />}
\* (lines 1171-1181)
ProfileSidebarShown == View = "main" /\ showProfileModal /\ owner # Null

\* setShowProductModal(false) of ProductSidebar: the close button and Cancel
\* (lines 337, 377), or the Escape key (lines 320-330); editingProduct is
\* kept.  Each sidebar that is rendered listens for keydown on the document,
\* so one press of Escape closes the profile sidebar as well when it is shown.
CloseProductModal(escape) ==
    /\ ProductSidebarShown
    /\ showProductModal' = FALSE
    /\ showProfileModal' = (showProfileModal /\ ~(escape /\ ProfileSidebarShown))
    /\ UNCHANGED <<notSidebar, activeTab, editingProduct>>

\* productData: food_item_id, name and restaurant_id: myRestaurant.id
ProductRow(f, r, id) == [food_item_id |-> id, name |-> f.name, restaurant_id |-> r]

\* handleProductSubmit up to its await.  f is productForm as the sidebar holds
\* it when the button is pressed.  With editingProduct null the row is
\* inserted under the id `${myRestaurant.id}_${Date.now()}` (the clock has
\* moved on since the last save); otherwise the write is
\* update(productData).eq('food_item_id', editingProduct.food_item_id), also
\* when the product has been deleted meanwhile.  The name is not looked up in
\* the store.
ProductSubmitIssue(f) ==
    /\ InFlight < MaxInFlight
    /\ Len(productWrites) < MaxProductWrites
    /\ editingProduct = <<>> => /\ Len(dbFoodItems) + Len(productWrites) < MaxProducts
                                /\ dateNow < MaxAdds
    /\ dateNow' = IF editingProduct = <<>> THEN dateNow + 1 ELSE dateNow
    /\ LET id == IF editingProduct = <<>> THEN <<myRestaurant, dateNow + 1>>
                 ELSE editingProduct[1].food_item_id
       IN productWrites' =
              Append(productWrites,
                     [kind |-> IF editingProduct = <<>> THEN "insert" ELSE "update",
                      rest |-> myRestaurant,
                      id |-> id,
                      row |-> ProductRow(f, myRestaurant, id),
                      submit |-> TRUE,
                      live |-> TRUE])

\* handleProductSubmit without its test of the form
ProductSubmitUnchecked(f) ==
    /\ ProductSidebarShown
    /\ ProductSubmitIssue(f)
    /\ UNCHANGED <<notManage, owner, loading, myRestaurant, orderLoads,
                   productLoads, dbFoodItems, isUpdatingProfile, profileCalls,
                   sidebarVars>>

\* handleProductSubmit (lines 731-765) up to its await, the button of
\* ProductSidebar (line 383)
ProductSubmit(f) ==
    /\ ProductSidebarShown
    /\ IF ProductFormRejected(f)
       THEN UNCHANGED <<productWrites, dateNow>>
       ELSE ProductSubmitIssue(f)
    /\ UNCHANGED <<notManage, owner, loading, myRestaurant, orderLoads,
                   productLoads, dbFoodItems, isUpdatingProfile, profileCalls,
                   sidebarVars>>

\* handleDeleteProduct(product.food_item_id) up to its await, the Delete
\* buttons of card k
DeleteProduct(k, confirmed) ==
    /\ ProductsTabShown
    /\ k \in DOMAIN products
    /\ IF ~confirmed
       THEN UNCHANGED productWrites
       ELSE /\ InFlight < MaxInFlight
            /\ Len(productWrites) < MaxProductWrites
            /\ productWrites' =
                   Append(productWrites,
                          [kind |-> "delete", rest |-> myRestaurant,
                           id |-> products[k].food_item_id,
                           row |-> products[k], submit |-> FALSE, live |-> TRUE])
    /\ UNCHANGED <<notManage, owner, loading, myRestaurant, orderLoads,
                   productLoads, dbFoodItems, isUpdatingProfile, profileCalls,
                   dateNow, sidebarVars>>

\* food_items after the write w: insert(productData),
\* update(productData).eq('food_item_id', id) or delete().eq('food_item_id', id)
Written(w) ==
    IF w.kind = "insert" THEN Append(dbFoodItems, w.row)
    ELSE IF w.kind = "update"
         THEN [k \in DOMAIN dbFoodItems |->
                  IF dbFoodItems[k].food_item_id = w.id THEN w.row
                  ELSE dbFoodItems[k]]
    ELSE SelectSeq(dbFoodItems, LAMBDA x : x.food_item_id # w.id)

\* the continuation of the insert, update or delete: if (error) throw error;
\* await loadProducts()  (the loadProducts of the render that made the call,
\* whose myRestaurant is the restaurant of the main view it was pressed on)
ProductWriteResult(i, res) ==
    /\ i \in DOMAIN productWrites
    /\ productWrites' = RemoveAt(productWrites, i)
    /\ IF res = "ok"
       THEN /\ dbFoodItems' = Written(productWrites[i])
            /\ productLoads' = Append(productLoads, [rest |-> productWrites[i].rest,
                                                   live |-> productWrites[i].live,
                                                   submit |-> productWrites[i].submit])
       ELSE UNCHANGED <<dbFoodItems, productLoads>>
    /\ UNCHANGED <<notManage, owner, loading, myRestaurant, orderLoads,
                   isUpdatingProfile, profileCalls, dateNow, sidebarVars>>

\* the button 'Edit Profile' of the header (line 979)
OpenProfileModal ==
    /\ View = "main"
    /\ showProfileModal' = TRUE
    /\ UNCHANGED <<notSidebar, activeTab, showProductModal, editingProduct>>

\* onClose of ProfileSidebar: the close button and Cancel (lines 429, 537), or
\* the Escape key (lines 412-422), which closes the product sidebar as well
\* when it is shown
CloseProfileModal(escape) ==
    /\ ProfileSidebarShown
    /\ showProfileModal' = FALSE
    /\ showProductModal' = (showProductModal /\ ~(escape /\ ProductSidebarShown))
    /\ UNCHANGED <<notSidebar, activeTab, editingProduct>>

\* handleProfileUpdate up to its first await; the Save button of
\* ProfileSidebar is disabled={loading} (isUpdatingProfile)
ProfileUpdate(f) ==
    /\ ProfileSidebarShown
    /\ ~isUpdatingProfile
    /\ IF ProfileFormRejected(f)
       THEN UNCHANGED <<isUpdatingProfile, profileCalls>>
       ELSE /\ InFlight < MaxInFlight
            /\ isUpdatingProfile' = TRUE
            /\ profileCalls' = Append(profileCalls, NewProfileCall(user))
    /\ UNCHANGED <<notManage, owner, loading, myRestaurant, orderLoads,
                   productLoads, dbFoodItems, productWrites, dateNow, sidebarVars>>

\* finally { setIsUpdatingProfile(false); }
ProfileCallEnds(i) ==
    /\ profileCalls' = RemoveAt(profileCalls, i)
    /\ isUpdatingProfile' = IF profileCalls[i].live THEN FALSE ELSE isUpdatingProfile

\* the continuation of the owners update: if (ownerError) throw ownerError
OwnerUpdateResult(i, res) ==
    /\ i \in DOMAIN profileCalls
    /\ profileCalls[i].pc = "ownerUpdate"
    /\ IF res = "ok"
       THEN /\ profileCalls' = [profileCalls EXCEPT ![i].pc = "restaurantUpdate"]
            /\ UNCHANGED isUpdatingProfile
       ELSE ProfileCallEnds(i)
    /\ UNCHANGED <<notManage, owner, loading, myRestaurant, orderLoads,
                   productLoads, dbFoodItems, productWrites, dateNow, sidebarVars>>

\* the continuation of the restaurants update: if (restaurantError) throw
RestaurantUpdateResult(i, res) ==
    /\ i \in DOMAIN profileCalls
    /\ profileCalls[i].pc = "restaurantUpdate"
    /\ IF res = "ok"
       THEN /\ profileCalls' = [profileCalls EXCEPT ![i].pc = "refetchOwner"]
            /\ UNCHANGED isUpdatingProfile
       ELSE ProfileCallEnds(i)
    /\ UNCHANGED <<notManage, owner, loading, myRestaurant, orderLoads,
                   productLoads, dbFoodItems, productWrites, dateNow, sidebarVars>>

\* const { data: updatedOwner } = await ...single(): the error is not read
RefetchOwnerResult(i, res) ==
    /\ i \in DOMAIN profileCalls
    /\ profileCalls[i].pc = "refetchOwner"
    /\ profileCalls' =
           [profileCalls EXCEPT
               ![i].pc = "refetchRestaurant",
               ![i].owner = IF res = "row" THEN OwnerRowOf(profileCalls[i].user)
                                           ELSE Null]
    /\ UNCHANGED <<notManage, owner, loading, myRestaurant, orderLoads,
                   productLoads, dbFoodItems, productWrites,
                   isUpdatingProfile, dateNow, sidebarVars>>

\* the row that setMyRestaurant(updatedRestaurant) stores
Refetched(i, res) == IF res = "row" THEN RestaurantOf(profileCalls[i].user) ELSE Null

\* const { data: updatedRestaurant } = await ...single();
\* setOwner(updatedOwner); setMyRestaurant(updatedRestaurant);
\* setShowProfileModal(false); the row is a new object, so the data effect
\* runs and loads when it is not null
RefetchRestaurantResult(i, res) ==
    /\ i \in DOMAIN profileCalls
    /\ profileCalls[i].pc = "refetchRestaurant"
    /\ ProfileCallEnds(i)
    /\ IF profileCalls[i].live
       THEN /\ owner' = profileCalls[i].owner
            /\ myRestaurant' = Refetched(i, res)
            /\ showProfileModal' = FALSE
            /\ orderLoads' = OrderLoadsAfterCommit(orderLoads, Refetched(i, res), TRUE)
            /\ productLoads' = ProductLoadsAfterCommit(productLoads, Refetched(i, res),
                                                       TRUE)
            /\ loading' = (loading \/ StartsLoads(Refetched(i, res), TRUE))
       ELSE UNCHANGED <<owner, myRestaurant, showProfileModal, orderLoads,
                        productLoads, loading>>
    /\ UNCHANGED <<notManage, dbFoodItems, productWrites, dateNow, activeTab,
                   showProductModal, editingProduct>>

\* a found dashboard of u1 showing the orders rs of its restaurant while the
\* order loads ls are in flight; the products are loaded
FoundDashboard(rs, ls) ==
    /\ dashMounted = TRUE
    /\ user = "u1"
    /\ authReady = TRUE
    /\ owner = OwnerRowOf("u1")
    /\ orders = rs
    /\ loading = (ls # <<>>)
    /\ myRestaurant = RestaurantOf("u1")
    /\ restaurantLoaded = TRUE
    /\ restaurantCheckAttempts = 0
    /\ dbFoodItems = <<[food_item_id |-> <<"r1", -1>>, name |-> 2,
                        restaurant_id |-> "r1"]>>
    /\ dbOwners = {"u1"}
    /\ dbRestaurants = {"u1"}
    /\ products = FetchProducts(RestaurantOf("u1"))
    /\ sessionChecks = <<>>
    /\ runs = <<>>
    /\ orderLoads = ls
    /\ productLoads = <<>>
    /\ signOuts = <<>>
    /\ epNotFound = 0
    /\ epRetries = 0
    /\ epRetryLookups = 0
    /\ retryTimer = "none"
    /\ loadOutcome = "none"
    /\ InitAuthPage
    /\ InitUi
    /\ InitNoHistory

\* the restaurant has one order, which the dashboard has loaded
InitManaged ==
    /\ dbOrderItems = <<LineItem("o1", <<1, 1>>, "r1")>>
    /\ dbOrders = <<Header("o1")>>
    /\ FoundDashboard(FullOrders(FetchHeaders(UniqueOrderIds(FetchItems("r1"))),
                                 FetchItems("r1")), <<>>)

\* the restaurant has one order; the first order load is in flight
InitOwners ==
    /\ FoundDashboard(<<>>, <<NewOrderLoad(RestaurantOf("u1"))>>)
    /\ dbOrderItems = <<LineItem("o1", <<1, 1>>, "r1")>>
    /\ dbOrders = <<Header("o1")>>

Tabs == {"orders", "products"}

\* the product form is saved with its name empty or the name of the product
\* the store starts with
SavedForms == {f \in ProductForms : f.name # 1}

\* the products tab: the sidebar is opened and closed, a product is saved or
\* deleted, the store answers the write
ProductStep ==
    \/ OpenAddProduct
    \/ \E k \in 1..MaxProducts : OpenEditProduct(k)
    \/ \E escape \in BOOLEAN : CloseProductModal(escape)
    \/ \E f \in SavedForms : ProductSubmit(f)
    \/ \E k \in 1..MaxProducts, c \in BOOLEAN : DeleteProduct(k, c)
    \/ \E i \in 1..MaxProductWrites, res \in FetchResults : ProductWriteResult(i, res)

\* the profile sidebar: it is opened and closed, the profile is saved, the
\* store answers the writes and the refetches
ProfileStep ==
    \/ OpenProfileModal
    \/ \E escape \in BOOLEAN : CloseProfileModal(escape)
    \/ \E f \in ProfileForms : ProfileUpdate(f)
    \/ \E i \in 1..MaxInFlight, res \in FetchResults : OwnerUpdateResult(i, res)
    \/ \E i \in 1..MaxInFlight, res \in FetchResults : RestaurantUpdateResult(i, res)
    \/ \E i \in 1..MaxInFlight, res \in LookupResults : RefetchOwnerResult(i, res)
    \/ \E i \in 1..MaxInFlight, res \in LookupResults : RefetchRestaurantResult(i, res)

\* the management of a found dashboard while its owner stays signed in
NextManage ==
    \/ \E tab \in Tabs : SetActiveTab(tab)
    \/ ProductStep
    \/ ProfileStep
    \/ LoadStep

SpecManage == InitManaged /\ [][NextManage]_vars

\* the forms: those of a found dashboard, and that of the auth page of a
\* dashboard nobody is signed in to
InitForms == InitManaged \/ InitReg

\* the dashboard at rest: no call of it is in flight
Settled == InFlight = 0

\* the forms are submitted one at a time: the owner presses Save or Delete on
\* a dashboard at rest and waits for its answer and its reload
SubmitSettled(f) == Settled /\ ProductSubmit(f)
DeleteSettled(k, confirmed) == Settled /\ DeleteProduct(k, confirmed)
ProfileSettled(f) == Settled /\ ProfileUpdate(f)

NextForms ==
    \/ \E tab \in Tabs : SetActiveTab(tab)
    \/ OpenAddProduct
    \/ \E k \in 1..MaxProducts : OpenEditProduct(k)
    \/ \E escape \in BOOLEAN : CloseProductModal(escape)
    \/ \E f \in SavedForms : SubmitSettled(f)
    \/ \E k \in 1..MaxProducts, c \in BOOLEAN : DeleteSettled(k, c)
    \/ \E i \in 1..MaxProductWrites, res \in FetchResults : ProductWriteResult(i, res)
    \/ OpenProfileModal
    \/ \E escape \in BOOLEAN : CloseProfileModal(escape)
    \/ \E f \in ProfileForms : ProfileSettled(f)
    \/ \E i \in 1..MaxInFlight, res \in FetchResults : OwnerUpdateResult(i, res)
    \/ \E i \in 1..MaxInFlight, res \in FetchResults : RestaurantUpdateResult(i, res)
    \/ \E i \in 1..MaxInFlight, res \in LookupResults : RefetchOwnerResult(i, res)
    \/ \E i \in 1..MaxInFlight, res \in LookupResults : RefetchRestaurantResult(i, res)
    \/ LoadStep
    \/ ToggleLogin
    \/ \E f \in AuthForms, u \in Visitors : HandleAuth(FormKind(f), u)
    \/ \E i \in CallIds : SwitchToLogin(i)
    \/ HandleAuthStep

SpecForms == InitForms /\ [][NextForms]_vars

\* the auth state changes as owners follow one another on one dashboard: a
\* session ends before the next begins
SessionChange(s, f) ==
    /\ user = NoUser \/ s = NoUser
    /\ AuthStateChange(s, f)

NextOwners ==
    \/ SignOutStart
    \/ \E i \in 1..MaxInFlight : SignOutDone(i)
    \/ \E s \in Sessions, f \in BOOLEAN : SessionChange(s, f)
    \/ \E i \in 1..MaxInFlight, res \in LookupResults : OwnerResult(i, res)
    \/ \E i \in 1..MaxInFlight, res \in LookupResults : RestaurantResult(i, res)
    \/ RefreshOrders
    \/ LoadStep

SpecOwners == InitOwners /\ [][NextOwners]_vars

\* the forms that leave a field empty which the handler requires
EmptyAuthForms ==
    {f \in AuthForms : f.email = "" \/ f.password = ""}
EmptyRegistrationForms ==
    {f \in AuthForms : f.ownerName = "" \/ f.restaurantName = ""
                          \/ f.addressBarangay = "" \/ f.restaurantCategoryId = ""}
EmptyProductForms ==
    {f \in ProductForms : f.name = 0 \/ f.price = "" \/ f.stock = ""}
EmptyProfileForms ==
    {f \in ProfileForms : f.contact_name = "" \/ f.name = ""
                             \/ f.address_barangay = "" \/ f.category_id = ""}

\* C23: a form with a required field left empty issues no call: handleAuth
\* (email or password empty; in registration mode also owner name, restaurant
\* name, barangay or category) ends at once with an error message shown and
\* loading cleared, and no auth or store call; handleProductSubmit (name,
\* price or stock empty) and handleProfileUpdate (owner name, restaurant name,
\* barangay or category empty) issue no store write and start no call.  Stated
\* by contraposition: a step that starts a call, writes to the store or leaves
\* the auth page without its message is no submission of such a form.
C23_ValidationBlocks ==
    [][/\ (AuthPageShown /\ (authCall'.pc # "done" \/ error' = "" \/ pageLoading'
                                \/ storeVars' # storeVars \/ dashAsync' # dashAsync))
              => /\ \A f \in EmptyAuthForms, u \in Users : ~HandleAuth(FormKind(f), u)
                 /\ ~isLogin => \A f \in EmptyRegistrationForms, u \in Users :
                                    ~HandleAuth(FormKind(f), u)
       /\ (View = "main" /\ (productWrites' # productWrites \/ profileCalls' # profileCalls
                                \/ isUpdatingProfile' # isUpdatingProfile
                                \/ storeVars' # storeVars \/ dashAsync' # dashAsync))
              => /\ \A f \in EmptyProductForms : ~ProductSubmit(f)
                 /\ \A f \in EmptyProfileForms : ~ProfileUpdate(f)]_vars

\* the auth page after a registration with a detail missing: the message is
\* shown, loading is cleared, and the call has ended without any insert
C23_Witness ==
    /\ AuthPageShown /\ ~isLogin
    /\ error = ErrRequired /\ ~pageLoading
    /\ authCall.pc = "done" /\ authCall.live
    /\ authCall.inserts = 0 /\ authCall.ownerInserts = 0

\* C27: a found dashboard stays found while its owner stays signed in and no
\* auth state change occurs: after every profile update, product save or
\* delete and load, whatever its outcome, the restaurant row is still stored
\* and the 'No Restaurant Linked' screen is not shown.
C27_StaysFound ==
    user = "u1" => (myRestaurant = RestaurantOf("u1") /\ View # "noRestaurant")

\* the restaurant row of a dashboard: the restaurant the orders and products
\* are loaded for
ProductsOf(r) == \A k \in DOMAIN products : products[k].restaurant_id = r
OrdersOf(r) ==
    \A k \in DOMAIN orders :
        \E j \in DOMAIN FetchItems(r) : FetchItems(r)[j].order_id = orders[k].id

\* C29: whenever the dashboard of a signed-in owner is found and not loading,
\* the orders and the products it holds are those of its restaurant, or none,
\* also when a load of that owner has failed.  (Stated for the dashboard at
\* rest, no load being in flight: the loading flag covers the order loads
\* only.)
C29_NothingOfPreviousOwner ==
    (View = "main" /\ ~loading /\ user # NoUser
        /\ orderLoads = <<>> /\ productLoads = <<>>)
        => (ProductsOf(myRestaurant) /\ OrdersOf(myRestaurant))

\* C15, its last clause: no order load and no product load is issued while no
\* restaurant is stored, whatever issues it (the data effect, the refresh
\* button, the reload after a product was saved or deleted).
C15_NoLoadWithoutRestaurant ==
    [][(Len(orderLoads') > Len(orderLoads) \/ Len(productLoads') > Len(productLoads))
           => myRestaurant' # Null]_vars

====
